---- MODULE Spec2Model ----
(***************************************************************************)
(* State-machine model of the SOP generation backend:                      *)
(*   TemplateCache / SOPGenerator   scripts/generators/sop_generator.py    *)
(*   FreeLLMClient                  scripts/utils/llm_client.py            *)
(*   AutomationPipelineManager      scripts/automation/pipeline_manager.py *)
(*   generation router              api/routers/generation.py              *)
(*   simple HTTP server             api/simple_server.py                   *)
(* Each component has its own specification over the shared variables:     *)
(* SpecCache, SpecLLM, SpecSection, SpecTemplate, SpecBatch, SpecJobs,     *)
(* SpecRace (TemplateCache under concurrent callers), SpecSimple (the      *)
(* simple server) and SpecRuns (consecutive batch runs).                   *)
(***************************************************************************)
EXTENDS Integers, Sequences, FiniteSets, TLC

VARIABLES
    now,             \* clock reading shared by datetime.now() and st_mtime
    cache,           \* cache directory: cache key -> pickled entry
    cache_duration,  \* TemplateCache.cache_duration, in clock units
    last,            \* the most recent completed TemplateCache call
    prev,            \* the TemplateCache call completed before it
    ops,             \* number of calls made so far (bounded exploration)
    \* FreeLLMClient
    providers,       \* self.providers[p]['enabled']
    retry_attempts,  \* self.retry_attempts
    llm_pc,          \* position inside generate_content / _try_provider
    llm_request,     \* the provider argument of generate_content
    llm_prompt,      \* keywords found in user_prompt.lower()
    llm_i,           \* index into provider_order of the provider in hand
    llm_attempt,     \* loop variable of _try_provider
    llm_calls,       \* per provider: HTTP calls made
    llm_ok,          \* per provider: HTTP calls that returned a response
    llm_gaveup,      \* providers whose _try_provider raised
    llm_waits,       \* the time.sleep arguments, as <<provider, seconds>>
    llm_result,      \* value returned by generate_content
    llm_raised,      \* generate_content raised to its caller
    \* SOPGenerator
    template_type,          \* self.template_type
    use_hardcoded_content,  \* self.use_hardcoded_content
    has_client,             \* self.llm_client is not None
    sec_pc,                 \* generate_section called directly: calls so far
    sec_last,               \* the most recent generate_section call
    llm_invocations,        \* calls of llm_client.generate_content so far
    sections_in,            \* compliance_data['sections'] as configured
    template_structure,     \* the list generate_template iterates
    gen_pc,                 \* position inside generate_template
    gen_i,                  \* loop index i of generate_template
    sections,               \* generated_content['sections']
    section_keys,           \* its keys in dict (first insertion) order
    stats,                  \* generated_content['generation_stats']
    generated,              \* section names in the order they were generated
    \* AutomationPipelineManager
    parallel,          \* generate_all_templates(parallel=...)
    force_regenerate,  \* generate_all_templates(force_regenerate=...)
    raises,            \* per template type: where its unit raises, if at all
    batch_pc,          \* position inside generate_all_templates
    unit_pc,           \* per template type: position of generate_single_template
    unit_result,       \* per template type: what its unit returned
    templates,         \* results['templates']
    templates_keys,    \* its keys in dict (insertion) order
    summary,           \* results['summary']
    monitoring_data,   \* self.monitoring_data
    scheduled,         \* the batch was started by run_scheduled_generation
    notification,      \* subject of the notification sent for the batch
    \* generation router
    generation_jobs,   \* generation_jobs: generation id -> GenerationStatus
    task_pc,           \* per job: position of its generate_sop_async task
    http_last,         \* the most recent response of the router
    requests,          \* number of router requests made so far
    \* workers sharing one cache file
    w_pc,              \* per worker: position inside TemplateCache.get / set
    w_call,            \* per worker: the call in hand, or its last one
    file_inode,        \* inode the cache path names (0: no such file)
    inodes_made,       \* files created under the cache path so far
    set_contents,      \* contents written to the path by a set, so far
    last_set_at,       \* clock reading when the latest set returned (-1: none)
    \* simple server
    generators_available  \* GENERATORS_AVAILABLE of api/simple_server.py

cacheVars == <<now, cache, cache_duration, last, prev, ops>>

llmVars == <<providers, retry_attempts, llm_pc, llm_request, llm_prompt, llm_i,
             llm_attempt, llm_calls, llm_ok, llm_gaveup, llm_waits, llm_result,
             llm_raised>>

----------------------------------------------------------------------------
(* Bounds of the exploration *)

MaxTTL == 1
MaxTime == 2
MaxOps == 2
MaxRetry == 3
LongRetry == 8
MaxSections == 2

----------------------------------------------------------------------------
(* Values *)

None == "None"

TemplateTypes == {"restaurant"}
SectionNames == {"Introduction", "Training"}
Texts == {"", "text1", "text2"}

\* the (template_type, section_name, prompt) triples TemplateCache is
\* exercised with directly; the last two have names holding the "_" that
\* _get_cache_key joins the parts with
CacheTriples ==
    { <<"restaurant", "Introduction", "p1">>,
      <<"restaurant", "Introduction", "p2">>,
      <<"healthcare", "Training", "p1">>,
      <<"a_b", "c", "p1">>,
      <<"a", "b_c", "p1">> }

\* hashlib.md5(...).hexdigest(): a digest that never collides on the inputs
\* explored and holds no "_" separator of its own.
Md5(s) == "md5(" \o s \o ")"

\* TemplateCache._get_cache_key: f"{template_type}_{section_name}_{prompt_hash}"
CacheKeyOf(type, section_name, prompt_hash) ==
    Md5(type \o "_" \o section_name \o "_" \o prompt_hash)

\* the first two statements of get and of set: hash the prompt, derive the key
KeyFor(type, section_name, prompt) ==
    CacheKeyOf(type, section_name, Md5(prompt))

\* age test of get, preceded by two faulty variants of it
EntryExpiredInclusive(entry, t, duration) == t - entry.mtime >= duration

EntryNeverExpired(entry, t, duration) == FALSE

\* datetime.now() - cache_time > self.cache_duration
EntryExpired(entry, t, duration) == t - entry.mtime > duration

GetFaults == {"none", "io"}
SetFaults == {"none", "io", "torn"}

\* faulty variant of get: an error while reading removes the entry
GetOutcomeFaultEvicts(c, t, duration, key, fault) ==
    IF fault = "io"
    THEN [ret |-> None, hit |-> FALSE, cache |-> [k \in DOMAIN c \ {key} |-> c[k]]]
    ELSE IF key \notin DOMAIN c THEN [ret |-> None, hit |-> FALSE, cache |-> c]
    ELSE IF t - c[key].mtime > duration
         THEN [ret |-> None, hit |-> FALSE,
               cache |-> [k \in DOMAIN c \ {key} |-> c[k]]]
    ELSE IF ~c[key].complete THEN [ret |-> None, hit |-> FALSE, cache |-> c]
    ELSE [ret |-> c[key].content, hit |-> TRUE, cache |-> c]

\* TemplateCache.get as a function of the directory: the value returned and the
\* directory afterwards.  fault = "io": an exception inside the try block.
\* An entry whose pickle is incomplete makes pickle.load raise.
GetOutcome(c, t, duration, key, fault) ==
    IF fault = "io" THEN [ret |-> None, hit |-> FALSE, cache |-> c]
    ELSE IF key \notin DOMAIN c THEN [ret |-> None, hit |-> FALSE, cache |-> c]
    ELSE IF EntryExpired(c[key], t, duration)
         THEN [ret |-> None, hit |-> FALSE,
               cache |-> [k \in DOMAIN c \ {key} |-> c[k]]]
    ELSE IF ~c[key].complete THEN [ret |-> None, hit |-> FALSE, cache |-> c]
    ELSE [ret |-> c[key].content, hit |-> TRUE, cache |-> c]

\* faulty variant of set: fallback content is not stored
SetOutcomeSkipsFallback(c, t, key, content, fault) ==
    IF fault = "io" \/ content.src = "fallback" THEN c
    ELSE [k \in DOMAIN c \cup {key} |->
            IF k = key
            THEN [content |-> content, mtime |-> t, complete |-> fault = "none"]
            ELSE c[k]]

\* TemplateCache.set as a function of the directory.  fault = "io": the
\* exception comes before the file is opened for writing (no-op);
\* fault = "torn": open(.., 'wb') truncated the file and pickle.dump raised.
SetOutcome(c, t, key, content, fault) ==
    IF fault = "io" THEN c
    ELSE [k \in DOMAIN c \cup {key} |->
            IF k = key
            THEN [content |-> content, mtime |-> t, complete |-> fault = "none"]
            ELSE c[k]]

NoCall == [op |-> "none", triple |-> <<>>, key |-> "", content |-> None,
           ret |-> None, hit |-> FALSE, fault |-> "none", at |-> 0, age |-> 0]

EmptyCache == [k \in {} |-> NoCall]

genVars == <<template_type, use_hardcoded_content, has_client, sec_pc, sec_last,
             llm_invocations, sections_in, template_structure, gen_pc, gen_i,
             sections, section_keys, stats, generated>>

batchVars == <<parallel, force_regenerate, raises, batch_pc, unit_pc,
               unit_result, templates, templates_keys, summary, monitoring_data,
               scheduled, notification>>

jobVars == <<generation_jobs, task_pc, http_last, requests>>

raceVars == <<w_pc, w_call, file_inode, inodes_made, set_contents, last_set_at>>

serverVars == <<generators_available>>

moreVars == <<raceVars, serverVars>>

vars == <<cacheVars, llmVars, genVars, batchVars, jobVars, moreVars>>

----------------------------------------------------------------------------
(* FreeLLMClient: values *)

\* LLMProvider values, in self.provider_order
provider_order == <<"groq", "huggingface", "together", "openrouter">>

Providers == {provider_order[i] : i \in 1..Len(provider_order)}

\* what generate_content may be given as `provider`: None, AUTO or a provider
Requests == {None, "auto"} \cup Providers

\* user prompts, each given by the keywords it holds
UserPrompts == { {}, {"introduction", "procedure"}, {"procedure", "documentation"},
                 {"emergency"}, {"training", "monitoring"}, {"monitoring"},
                 {"training", "procedure", "documentation"} }

\* texts a provider may answer with (what each looks like: SampleAttr)
ProviderTexts == {"empty", "tiny", "short", "padded", "nokeyword", "nomarker",
                  "good"}

\* a text is a record: where it comes from and what identifies it there
Text(src, id, type) == [src |-> src, id |-> id, type |-> type]

NoResponse == [provider |-> "-", model |-> "-", content |-> Text("-", "-", "-")]

\* the value Python's None, as a response
NoneResponse == [provider |-> None, model |-> None, content |-> Text(None, None, None)]

\* _get_fallback_response: the if/elif chain over user_prompt.lower()
SectionTypeOf(prompt) ==
    IF "introduction" \in prompt THEN "introduction"
    ELSE IF "daily" \in prompt \/ "procedure" \in prompt THEN "daily_procedures"
    ELSE IF "crisis" \in prompt \/ "emergency" \in prompt THEN "crisis_response"
    ELSE IF "training" \in prompt THEN "employee_training"
    ELSE IF "monitoring" \in prompt THEN "monitoring"
    ELSE IF "documentation" \in prompt THEN "documentation"
    ELSE "general"

\* keys of fallback_templates in _get_fallback_content_by_type
FallbackTemplateKeys == {"introduction", "daily_procedures", "crisis_response",
                         "employee_training"}

\* fallback_templates.get(section_type, fallback_templates["introduction"])
FallbackContentByType(section_type) ==
    IF section_type \in FallbackTemplateKeys
    THEN Text("fallback_template", section_type, "")
    ELSE Text("fallback_template", "introduction", "")

\* _get_fallback_response
FallbackResponse(prompt) ==
    [provider |-> "fallback", model |-> "local_template",
     content |-> FallbackContentByType(SectionTypeOf(prompt))]

\* the LLMResponse a provider call returns, after _try_provider has set
\* response.provider = provider.value
ProviderResponse(p, text) ==
    [provider |-> p, model |-> p, content |-> Text("provider", text, "")]

\* faulty variant of the retry test: one attempt fewer before giving up
LastAttemptEarly(attempt, retries) == attempt >= retries - 2

\* `attempt < self.retry_attempts - 1` is false: the error is re-raised
LastAttempt(attempt, retries) == ~(attempt < retries - 1)

RECURSIVE Pow2(_)
Pow2(n) == IF n <= 0 THEN 1 ELSE 2 * Pow2(n - 1)

\* wait_time = 2 ** attempt
WaitTime(attempt) == Pow2(attempt)

----------------------------------------------------------------------------
(* Texts: what the code measures of a text (length, length once stripped,  *)
(* markdown markers, words of the lower-cased text)                        *)

\* the provider answers explored
SampleAttr ==
    [id \in ProviderTexts |->
       CASE id = "empty"     -> [len |-> 0,   strip |-> 0,   marker |-> FALSE, words |-> {}]
         [] id = "tiny"      -> [len |-> 30,  strip |-> 30,  marker |-> TRUE,
                                 words |-> {"purpose", "step", "standard", "record"}]
         [] id = "short"     -> [len |-> 70,  strip |-> 70,  marker |-> TRUE,
                                 words |-> {"purpose", "step", "standard", "record"}]
         [] id = "padded"    -> [len |-> 120, strip |-> 90,  marker |-> TRUE,
                                 words |-> {"purpose", "step", "standard", "record"}]
         [] id = "nokeyword" -> [len |-> 300, strip |-> 300, marker |-> TRUE, words |-> {}]
         [] id = "nomarker"  -> [len |-> 300, strip |-> 300, marker |-> FALSE,
                                 words |-> {"purpose", "step", "standard", "record"}]
         [] id = "good"      -> [len |-> 300, strip |-> 298, marker |-> TRUE,
                                 words |-> {"purpose", "step", "standard", "record"}]]

\* len() of the blocks of fallback_templates
FallbackTemplateLen ==
    [k \in FallbackTemplateKeys |->
       CASE k = "introduction"      -> 1433
         [] k = "daily_procedures"  -> 1406
         [] k = "crisis_response"   -> 1937
         [] k = "employee_training" -> 1844]

\* words of required_elements found in each block of fallback_templates
FallbackTemplateWords ==
    [k \in FallbackTemplateKeys |->
       CASE k = "introduction"      -> {"overview", "procedure", "requirement",
                                        "regulation", "standard", "document"}
         [] k = "daily_procedures"  -> {"procedure", "document", "record"}
         [] k = "crisis_response"   -> {"procedure", "document"}
         [] k = "employee_training" -> {"procedure", "requirement", "document",
                                        "record", "form"}]

\* section names with an entry in hardcoded_content (and in the default prompts)
HardcodedNames == {"Introduction", "Procedures", "Compliance Requirements",
                   "Documentation"}

\* len() of what _get_hardcoded_content returns: the four blocks (the
\* Introduction block holds template_type twice), else
\* f"# {section_name}\n\nContent for {section_name} section."
HardcodedLen(type, name) ==
    CASE name = "Introduction"            -> 472 + 2 * Len(type)
      [] name = "Procedures"              -> 752
      [] name = "Compliance Requirements" -> 617
      [] name = "Documentation"           -> 600
      [] OTHER                            -> 25 + 2 * Len(name)

\* len() of what SOPGenerator._get_fallback_content returns
GeneratorFallbackLen(type, name) == 437 + 2 * Len(name) + Len(type)

\* len(text)
TextLen(text) ==
    CASE text.src = "provider"          -> SampleAttr[text.id].len
      [] text.src = "fallback_template" -> FallbackTemplateLen[text.id]
      [] text.src = "hardcoded"         -> HardcodedLen(text.type, text.id)
      [] text.src = "fallback"          -> GeneratorFallbackLen(text.type, text.id)
      [] OTHER                          -> 0

\* len(text.strip()) of a text a provider call or the client's fallback gave
TextStripLen(text) ==
    CASE text.src = "provider"          -> SampleAttr[text.id].strip
      [] text.src = "fallback_template" -> FallbackTemplateLen[text.id] - 14
      [] OTHER                          -> TextLen(text)

\* any(marker in content for marker in ['#', '*', '-', '1.'])
TextHasMarker(text) ==
    CASE text.src = "provider" -> SampleAttr[text.id].marker
      [] text.src \in {"fallback_template", "hardcoded", "fallback"} -> TRUE
      [] OTHER -> FALSE

\* the words of required_elements that occur in text.lower()
TextWords(text) ==
    CASE text.src = "provider"          -> SampleAttr[text.id].words
      [] text.src = "fallback_template" -> FallbackTemplateWords[text.id]
      [] OTHER                          -> {}

----------------------------------------------------------------------------
(* FreeLLMClient.generate_content, one step per statement that matters *)

LLMAtRest ==
    /\ providers = [p \in Providers |-> FALSE]
    /\ retry_attempts = 0
    /\ llm_pc = "off"
    /\ llm_request = None
    /\ llm_prompt = {}
    /\ llm_i = 0
    /\ llm_attempt = 0
    /\ llm_calls = [p \in Providers |-> 0]
    /\ llm_ok = [p \in Providers |-> 0]
    /\ llm_gaveup = {}
    /\ llm_waits = <<>>
    /\ llm_result = NoResponse
    /\ llm_raised = FALSE

\* values of LLM_RETRY_ATTEMPTS: the small ones and a long one
RetryAttempts == 0..MaxRetry \cup {LongRetry}

InitLLM ==
    /\ providers \in [Providers -> BOOLEAN]
    /\ retry_attempts \in RetryAttempts
    /\ llm_pc = "idle"
    /\ llm_request \in Requests
    /\ llm_prompt \in UserPrompts
    /\ llm_i = 0
    /\ llm_attempt = 0
    /\ llm_calls = [p \in Providers |-> 0]
    /\ llm_ok = [p \in Providers |-> 0]
    /\ llm_gaveup = {}
    /\ llm_waits = <<>>
    /\ llm_result = NoResponse
    /\ llm_raised = FALSE

IsAuto == llm_request \in {None, "auto"}

IndexOf(p) == CHOOSE i \in 1..Len(provider_order) : provider_order[i] = p

Current == provider_order[llm_i]

\* generate_content is entered: a named provider goes straight to
\* _try_provider, otherwise the loop over provider_order starts
GenerateContent ==
    /\ llm_pc = "idle"
    /\ IF IsAuto
       THEN /\ llm_pc' = "select"
            /\ llm_i' = 1
       ELSE /\ llm_pc' = "try"
            /\ llm_i' = IndexOf(llm_request)
    /\ llm_attempt' = 0
    /\ UNCHANGED <<providers, retry_attempts, llm_request, llm_prompt,
                   llm_calls, llm_ok, llm_gaveup, llm_waits, llm_result,
                   llm_raised>>
    /\ UNCHANGED <<cacheVars, genVars, batchVars, jobVars, moreVars>>

\* faulty variant: a disabled provider is tried like an enabled one
SkipDisabledTriesAnyway ==
    /\ llm_pc = "select"
    /\ llm_i <= Len(provider_order)
    /\ ~providers[Current]
    /\ llm_pc' = "try"
    /\ llm_attempt' = 0
    /\ UNCHANGED <<providers, retry_attempts, llm_request, llm_prompt, llm_i,
                   llm_calls, llm_ok, llm_gaveup, llm_waits, llm_result,
                   llm_raised>>
    /\ UNCHANGED <<cacheVars, genVars, batchVars, jobVars, moreVars>>

\* `if not self.providers[provider]['enabled']: continue`
SkipDisabled ==
    /\ llm_pc = "select"
    /\ llm_i <= Len(provider_order)
    /\ ~providers[Current]
    /\ llm_i' = llm_i + 1
    /\ UNCHANGED <<providers, retry_attempts, llm_pc, llm_request, llm_prompt,
                   llm_attempt, llm_calls, llm_ok, llm_gaveup, llm_waits,
                   llm_result, llm_raised>>
    /\ UNCHANGED <<cacheVars, genVars, batchVars, jobVars, moreVars>>

\* an enabled provider: _try_provider is entered
EnterProvider ==
    /\ llm_pc = "select"
    /\ llm_i <= Len(provider_order)
    /\ providers[Current]
    /\ llm_pc' = "try"
    /\ llm_attempt' = 0
    /\ UNCHANGED <<providers, retry_attempts, llm_request, llm_prompt, llm_i,
                   llm_calls, llm_ok, llm_gaveup, llm_waits, llm_result,
                   llm_raised>>
    /\ UNCHANGED <<cacheVars, genVars, batchVars, jobVars, moreVars>>

\* the loop over provider_order ends without a return: fallback content
AllProvidersFailed ==
    /\ llm_pc = "select"
    /\ llm_i > Len(provider_order)
    /\ llm_result' = FallbackResponse(llm_prompt)
    /\ llm_pc' = "done"
    /\ UNCHANGED <<providers, retry_attempts, llm_request, llm_prompt, llm_i,
                   llm_attempt, llm_calls, llm_ok, llm_gaveup, llm_waits,
                   llm_raised>>
    /\ UNCHANGED <<cacheVars, genVars, batchVars, jobVars, moreVars>>

\* faulty variant: in the AUTO loop a successful response is kept but the
\* loop goes on to the next provider instead of returning
CallSucceedsKeepsGoing ==
    /\ llm_pc = "try"
    /\ llm_attempt < retry_attempts
    /\ \E text \in ProviderTexts :
         llm_result' = ProviderResponse(Current, text)
    /\ llm_calls' = [llm_calls EXCEPT ![Current] = @ + 1]
    /\ llm_ok' = [llm_ok EXCEPT ![Current] = @ + 1]
    /\ IF IsAuto /\ llm_i < Len(provider_order)
       THEN /\ llm_pc' = "select"
            /\ llm_i' = llm_i + 1
       ELSE /\ llm_pc' = "done"
            /\ llm_i' = llm_i
    /\ UNCHANGED <<providers, retry_attempts, llm_request, llm_prompt,
                   llm_attempt, llm_gaveup, llm_waits, llm_raised>>
    /\ UNCHANGED <<cacheVars, genVars, batchVars, jobVars, moreVars>>

\* one pass of `for attempt in range(self.retry_attempts)` whose call returns:
\* _try_provider returns the response and so does generate_content
CallSucceeds ==
    /\ llm_pc = "try"
    /\ llm_attempt < retry_attempts
    /\ \E text \in ProviderTexts :
         llm_result' = ProviderResponse(Current, text)
    /\ llm_calls' = [llm_calls EXCEPT ![Current] = @ + 1]
    /\ llm_ok' = [llm_ok EXCEPT ![Current] = @ + 1]
    /\ llm_pc' = "done"
    /\ UNCHANGED <<providers, retry_attempts, llm_request, llm_prompt, llm_i,
                   llm_attempt, llm_gaveup, llm_waits, llm_raised>>
    /\ UNCHANGED <<cacheVars, genVars, batchVars, jobVars, moreVars>>

\* a pass whose call raises, with attempts left: sleep 2 ** attempt, go on
CallFailsRetry ==
    /\ llm_pc = "try"
    /\ llm_attempt < retry_attempts
    /\ ~LastAttempt(llm_attempt, retry_attempts)
    /\ llm_calls' = [llm_calls EXCEPT ![Current] = @ + 1]
    /\ llm_waits' = Append(llm_waits, <<Current, WaitTime(llm_attempt)>>)
    /\ llm_attempt' = llm_attempt + 1
    /\ UNCHANGED <<providers, retry_attempts, llm_pc, llm_request, llm_prompt,
                   llm_i, llm_ok, llm_gaveup, llm_result, llm_raised>>
    /\ UNCHANGED <<cacheVars, genVars, batchVars, jobVars, moreVars>>

\* faulty variant: the AUTO loop has no except clause around _try_provider
CallFailsGiveUpUncaught ==
    /\ llm_pc = "try"
    /\ llm_attempt < retry_attempts
    /\ LastAttempt(llm_attempt, retry_attempts)
    /\ llm_calls' = [llm_calls EXCEPT ![Current] = @ + 1]
    /\ llm_gaveup' = llm_gaveup \cup {Current}
    /\ llm_pc' = "done"
    /\ llm_raised' = TRUE
    /\ UNCHANGED <<providers, retry_attempts, llm_request, llm_prompt, llm_i,
                   llm_attempt, llm_ok, llm_waits, llm_result>>
    /\ UNCHANGED <<cacheVars, genVars, batchVars, jobVars, moreVars>>

\* faulty variant: a named provider's last error is handled like one in the
\* AUTO loop, which moves on and ends in another provider or the fallback
CallFailsGiveUpFallsBack ==
    /\ llm_pc = "try"
    /\ llm_attempt < retry_attempts
    /\ LastAttempt(llm_attempt, retry_attempts)
    /\ llm_calls' = [llm_calls EXCEPT ![Current] = @ + 1]
    /\ llm_gaveup' = llm_gaveup \cup {Current}
    /\ llm_pc' = "select"
    /\ llm_i' = llm_i + 1
    /\ llm_raised' = FALSE
    /\ UNCHANGED <<providers, retry_attempts, llm_request, llm_prompt,
                   llm_attempt, llm_ok, llm_waits, llm_result>>
    /\ UNCHANGED <<cacheVars, genVars, batchVars, jobVars, moreVars>>

\* a pass whose call raises on the last attempt: `raise e`.  In the AUTO loop
\* the except clause moves on to the next provider; a named provider's error
\* leaves generate_content.
CallFailsGiveUp ==
    /\ llm_pc = "try"
    /\ llm_attempt < retry_attempts
    /\ LastAttempt(llm_attempt, retry_attempts)
    /\ llm_calls' = [llm_calls EXCEPT ![Current] = @ + 1]
    /\ llm_gaveup' = llm_gaveup \cup {Current}
    /\ IF IsAuto
       THEN /\ llm_pc' = "select"
            /\ llm_i' = llm_i + 1
            /\ llm_raised' = FALSE
       ELSE /\ llm_pc' = "done"
            /\ llm_i' = llm_i
            /\ llm_raised' = TRUE
    /\ UNCHANGED <<providers, retry_attempts, llm_request, llm_prompt,
                   llm_attempt, llm_ok, llm_waits, llm_result>>
    /\ UNCHANGED <<cacheVars, genVars, batchVars, jobVars, moreVars>>

\* range(self.retry_attempts) is empty or used up without return or raise:
\* _try_provider falls off its end and returns None, which generate_content
\* returns as the provider's response
TryProviderReturnsNone ==
    /\ llm_pc = "try"
    /\ ~(llm_attempt < retry_attempts)
    /\ llm_result' = NoneResponse
    /\ llm_pc' = "done"
    /\ UNCHANGED <<providers, retry_attempts, llm_request, llm_prompt, llm_i,
                   llm_attempt, llm_calls, llm_ok, llm_gaveup, llm_waits,
                   llm_raised>>
    /\ UNCHANGED <<cacheVars, genVars, batchVars, jobVars, moreVars>>

NextLLM ==
    \/ GenerateContent
    \/ SkipDisabled
    \/ EnterProvider
    \/ AllProvidersFailed
    \/ CallSucceeds
    \/ CallFailsRetry
    \/ CallFailsGiveUp
    \/ TryProviderReturnsNone

CacheAtRest ==
    /\ now = 0
    /\ cache = EmptyCache
    /\ cache_duration = 0
    /\ last = NoCall
    /\ prev = NoCall
    /\ ops = 0

----------------------------------------------------------------------------
(* TemplateCache under direct use *)

InitCache ==
    /\ now = 0
    /\ cache = EmptyCache
    /\ cache_duration \in 0..MaxTTL
    /\ last = NoCall
    /\ prev = NoCall
    /\ ops = 0

\* time passes between calls
Tick ==
    /\ now < MaxTime
    /\ now' = now + 1
    /\ UNCHANGED <<cache, cache_duration, last, prev, ops>>
    /\ UNCHANGED <<llmVars, genVars, batchVars, jobVars, moreVars>>

TemplateCacheSet ==
    /\ ops < MaxOps
    /\ \E triple \in CacheTriples, content \in Texts, fault \in SetFaults :
         LET key == KeyFor(triple[1], triple[2], triple[3]) IN
         /\ cache' = SetOutcome(cache, now, key, content, fault)
         /\ last' = [op |-> "set", triple |-> triple, key |-> key,
                     content |-> content,
                     ret |-> None, hit |-> FALSE, fault |-> fault,
                     at |-> now, age |-> 0]
    /\ prev' = last
    /\ ops' = ops + 1
    /\ UNCHANGED <<now, cache_duration>>
    /\ UNCHANGED <<llmVars, genVars, batchVars, jobVars, moreVars>>

TemplateCacheGet ==
    /\ ops < MaxOps
    /\ \E triple \in CacheTriples, fault \in GetFaults :
         LET key == KeyFor(triple[1], triple[2], triple[3])
             out == GetOutcome(cache, now, cache_duration, key, fault) IN
         /\ cache' = out.cache
         /\ last' = [op |-> "get", triple |-> triple, key |-> key,
                     content |-> None,
                     ret |-> out.ret, hit |-> out.hit, fault |-> fault,
                     at |-> now,
                     age |-> IF key \in DOMAIN cache
                             THEN now - cache[key].mtime ELSE 0]
    /\ prev' = last
    /\ ops' = ops + 1
    /\ UNCHANGED <<now, cache_duration>>
    /\ UNCHANGED <<llmVars, genVars, batchVars, jobVars, moreVars>>

NextCache == Tick \/ TemplateCacheSet \/ TemplateCacheGet


----------------------------------------------------------------------------
(* SOPGenerator: values *)

\* a section definition's 'order' key: absent, or present with a number
NoOrder == <<>>

Order(n) == <<n>>

\* requirements of a section definition: well formed is a dict whose
\* 'compliance', when present, is a list of strings; otherwise (None in place
\* of the dict, or a 'compliance' that is no list of strings) building the
\* prompt raises
ReqEmpty == [wellformed |-> TRUE, compliance |-> <<>>]
ReqFDA == [wellformed |-> TRUE, compliance |-> <<"FDA Food Code", "HACCP">>]
ReqMalformed == [wellformed |-> FALSE, compliance |-> <<>>]

Requirements == {ReqEmpty, ReqFDA, ReqMalformed}

\* ', '.join(strings)
RECURSIVE Join(_)
Join(strings) ==
    IF strings = <<>> THEN ""
    ELSE IF Len(strings) = 1 THEN strings[1]
    ELSE strings[1] \o ", " \o Join(Tail(strings))

\* self.prompts.get(section_name, {}).get('base', ''), with the default prompts
BasePrompt(name) == IF name \in HardcodedNames THEN "base prompt of " \o name ELSE ""

\* the f-string of generate_section (industry_data is empty: 'General')
BuildPrompt(type, name, req) ==
    "section=" \o name \o ";industry=General;type=" \o type
        \o ";compliance=" \o Join(req.compliance) \o ";" \o BasePrompt(name)

\* keywords of _get_fallback_response found in that prompt, lower-cased: the
\* fixed text holds "procedures" and "documentation", the rest comes from
\* the section name and its base prompt
PromptKeywords(name) ==
    {"procedure", "documentation"}
        \cup (IF name = "Introduction" THEN {"introduction"} ELSE {})
        \cup (IF name = "Training" THEN {"training"} ELSE {})

\* _get_hardcoded_content
HardcodedContent(type, name) == Text("hardcoded", name, type)

\* SOPGenerator._get_fallback_content
GeneratorFallbackContent(type, name) == Text("fallback", name, type)

NoText == Text("-", "-", "-")

\* required_elements.get(section_name, [])
RequiredElements(name) ==
    CASE name = "Introduction"            -> {"purpose", "scope", "overview"}
      [] name = "Procedures"              -> {"step", "procedure", "process"}
      [] name = "Compliance Requirements" -> {"requirement", "regulation", "standard"}
      [] name = "Documentation"           -> {"document", "record", "form"}
      [] OTHER                            -> {}

MinValidLength == 100

MinApiLength == 50

\* faulty variant: only the length is validated
ValidateLengthOnly(name, content) ==
    ~(TextLen(content) = 0 \/ TextStripLen(content) < MinValidLength)

\* _validate_section_content
ValidateSectionContent(name, content) ==
    /\ ~(TextLen(content) = 0 \/ TextStripLen(content) < MinValidLength)
    /\ ~(RequiredElements(name) # {} /\ RequiredElements(name) \cap TextWords(content) = {})
    /\ TextHasMarker(content)

\* what llm_client.generate_content (AUTO) may hand back for a prompt: a
\* provider's response, the client's own fallback response, or None
ClientReplies(name) ==
    {ProviderResponse(provider_order[1], text) : text \in ProviderTexts}
        \cup {FallbackResponse(PromptKeywords(name)), NoneResponse}

\* _call_llm_api: raises without a client, on a None response (attribute
\* access) and on content that is empty or under 50 characters once stripped
CallLLMApi(client, reply) ==
    IF ~client THEN [raised |-> TRUE, content |-> NoText, invoked |-> 0]
    ELSE IF reply = NoneResponse
         THEN [raised |-> TRUE, content |-> NoText, invoked |-> 1]
    ELSE IF TextLen(reply.content) = 0 \/ TextStripLen(reply.content) < MinApiLength
         THEN [raised |-> TRUE, content |-> NoText, invoked |-> 1]
    ELSE [raised |-> FALSE, content |-> reply.content, invoked |-> 1]

\* `if cached_content:` -- None and the empty string are both false
Truthy(got) == got.hit /\ TextLen(got.ret) > 0

\* faulty variant: the hardcoded-content flag is not consulted, a cache
\* miss always goes to the Generation Client
GenerateSectionIgnoringFlag(c, t, duration, type, hardcoded, client, name, req, gfault, sfault, reply) ==
    IF ~req.wellformed
    THEN [raised |-> TRUE, ret |-> NoText, cache |-> c, invoked |-> 0,
          how |-> "raised", rejected |-> FALSE]
    ELSE
      LET prompt == BuildPrompt(type, name, req)
          key == KeyFor(type, name, prompt)
          got == GetOutcome(c, t, duration, key, gfault)
      IN
      IF Truthy(got)
      THEN [raised |-> FALSE, ret |-> got.ret, cache |-> got.cache,
            invoked |-> 0, how |-> "cached", rejected |-> FALSE]
      ELSE
        LET api == CallLLMApi(client, reply)
            valid == ~api.raised /\ ValidateSectionContent(name, api.content)
            content == IF valid THEN api.content
                       ELSE GeneratorFallbackContent(type, name)
        IN [raised |-> FALSE, ret |-> content,
            cache |-> SetOutcome(got.cache, t, key, content, sfault),
            invoked |-> api.invoked,
            how |-> IF valid THEN "generated" ELSE "fallback",
            rejected |-> ~api.raised /\ ~valid]

\* generate_section as a function of the cache directory and of what the
\* environment does (cache faults, the client's reply): whether it raised,
\* the string returned, the directory afterwards, client invocations made
GenerateSection(c, t, duration, type, hardcoded, client, name, req, gfault, sfault, reply) ==
    IF ~req.wellformed
    THEN [raised |-> TRUE, ret |-> NoText, cache |-> c, invoked |-> 0,
          how |-> "raised", rejected |-> FALSE]
    ELSE
      LET prompt == BuildPrompt(type, name, req)
          key == KeyFor(type, name, prompt)
          got == GetOutcome(c, t, duration, key, gfault)
      IN
      IF Truthy(got)
      THEN [raised |-> FALSE, ret |-> got.ret, cache |-> got.cache,
            invoked |-> 0, how |-> "cached", rejected |-> FALSE]
      ELSE IF hardcoded
      THEN [raised |-> FALSE, ret |-> HardcodedContent(type, name),
            cache |-> SetOutcome(got.cache, t, key,
                                 HardcodedContent(type, name), sfault),
            invoked |-> 0, how |-> "hardcoded", rejected |-> FALSE]
      ELSE
        LET api == CallLLMApi(client, reply)
            valid == ~api.raised /\ ValidateSectionContent(name, api.content)
            content == IF valid THEN api.content
                       ELSE GeneratorFallbackContent(type, name)
        IN [raised |-> FALSE, ret |-> content,
            cache |-> SetOutcome(got.cache, t, key, content, sfault),
            invoked |-> api.invoked,
            how |-> IF valid THEN "generated" ELSE "fallback",
            rejected |-> ~api.raised /\ ~valid]

\* SOPGenerator.__init__ from the client initialisation on: the flag
\* chosen by the try block (no provider enabled, or FreeLLMClient() raising,
\* selects hardcoded content and drops the client) is assigned again from
\* USE_HARDCODED_CONTENT in the configuration block that follows
SOPGeneratorInit(any_enabled, init_fails, env_hardcoded) ==
    LET tried == IF ~init_fails /\ any_enabled
                 THEN [use_hardcoded_content |-> FALSE, llm_client |-> TRUE]
                 ELSE [use_hardcoded_content |-> TRUE, llm_client |-> FALSE]
    IN [tried EXCEPT !.use_hardcoded_content = env_hardcoded]

\* the generators __init__ can construct
Constructed ==
    {SOPGeneratorInit(any_enabled, init_fails, env_hardcoded) :
        any_enabled \in BOOLEAN, init_fails \in BOOLEAN, env_hardcoded \in BOOLEAN}

\* metadata['generation_method']
GenerationMethod(hardcoded) == IF hardcoded THEN "hardcoded" ELSE "ai_generated"

NoSectionCall == [name |-> "", req |-> ReqEmpty, raised |-> FALSE, ret |-> NoText,
                  how |-> "none", rejected |-> FALSE, get_failed |-> FALSE,
                  set_failed |-> FALSE]

NoStats == [total_sections |-> 0, successful_sections |-> 0,
            failed_sections |-> 0, cached_sections |-> 0]

NoSections == [n \in {} |-> NoText]

GenAtRest ==
    /\ template_type = ""
    /\ use_hardcoded_content = FALSE
    /\ has_client = FALSE
    /\ sec_pc = "off"
    /\ sec_last = NoSectionCall
    /\ llm_invocations = 0
    /\ sections_in = <<>>
    /\ template_structure = <<>>
    /\ gen_pc = "off"
    /\ gen_i = 0
    /\ sections = NoSections
    /\ section_keys = <<>>
    /\ stats = NoStats
    /\ generated = <<>>

templateVars == <<sections_in, template_structure, gen_pc, gen_i, sections,
                  section_keys, stats, generated>>

----------------------------------------------------------------------------
(* SOPGenerator.generate_section called directly, on a cold and on a warm *)
(* cache                                                                     *)

InitSection ==
    /\ now = 0
    /\ cache = EmptyCache
    /\ cache_duration \in 0..MaxTTL
    /\ last = NoCall
    /\ prev = NoCall
    /\ ops = 0
    /\ template_type \in TemplateTypes
    /\ \E g \in Constructed :
          /\ use_hardcoded_content = g.use_hardcoded_content
          /\ has_client = g.llm_client
    /\ sec_pc = "cold"
    /\ sec_last = NoSectionCall
    /\ llm_invocations = 0
    /\ sections_in = <<>>
    /\ template_structure = <<>>
    /\ gen_pc = "off"
    /\ gen_i = 0
    /\ sections = NoSections
    /\ section_keys = <<>>
    /\ stats = NoStats
    /\ generated = <<>>

\* time passes between the two calls
SectionTick ==
    /\ sec_pc = "warm"
    /\ now < MaxTime
    /\ now' = now + 1
    /\ UNCHANGED <<cache, cache_duration, last, prev, ops>>
    /\ UNCHANGED <<llmVars, genVars, batchVars, jobVars, moreVars>>

GenerateSectionCall ==
    /\ sec_pc \in {"cold", "warm"}
    /\ \E name \in SectionNames, req \in Requirements, gfault \in GetFaults,
          sfault \in SetFaults :
       \E reply \in ClientReplies(name) :
         LET out == GenerateSection(cache, now, cache_duration, template_type,
                                    use_hardcoded_content, has_client, name,
                                    req, gfault, sfault, reply) IN
         /\ cache' = out.cache
         /\ llm_invocations' = llm_invocations + out.invoked
         /\ sec_last' = [name |-> name, req |-> req, raised |-> out.raised,
                         ret |-> out.ret, how |-> out.how,
                         rejected |-> out.rejected,
                         get_failed |-> ~out.raised /\ gfault # "none",
                         set_failed |-> /\ ~out.raised
                                        /\ out.how # "cached"
                                        /\ sfault # "none"]
    /\ sec_pc' = IF sec_pc = "cold" THEN "warm" ELSE "end"
    /\ UNCHANGED <<now, cache_duration, last, prev, ops>>
    /\ UNCHANGED <<template_type, use_hardcoded_content, has_client>>
    /\ UNCHANGED templateVars
    /\ UNCHANGED <<llmVars, batchVars, jobVars, moreVars>>

NextSection == SectionTick \/ GenerateSectionCall

----------------------------------------------------------------------------
(* SOPGenerator.generate_template *)

SectionDef(name, order, req) == [name |-> name, order |-> order, req |-> req]

\* the section definitions the configured lists are made of
SectionDefs ==
    { SectionDef("Introduction", Order(1), ReqFDA),
      SectionDef("Introduction", Order(3), ReqEmpty),
      SectionDef("Training", Order(3), ReqMalformed),
      SectionDef("Training", NoOrder, ReqEmpty) }

\* compliance_data['sections']: every list of up to MaxSections definitions
SectionLists == UNION { [1..n -> SectionDefs] : n \in 0..MaxSections }

\* _get_default_compliance_data()['sections'] (no 'requirements' key: {})
DefaultSections ==
    << SectionDef("Introduction", Order(1), ReqEmpty),
       SectionDef("Procedures", Order(2), ReqEmpty),
       SectionDef("Compliance Requirements", Order(3), ReqEmpty),
       SectionDef("Documentation", Order(4), ReqEmpty) >>

DefaultOrder == 999

\* key=lambda x: x.get('order', 999)
OrderKey(def) == IF def.order = NoOrder THEN DefaultOrder ELSE def.order[1]

RECURSIVE InsertSorted(_, _)
InsertSorted(sorted, def) ==
    IF sorted = <<>> THEN <<def>>
    ELSE IF OrderKey(Head(sorted)) <= OrderKey(def)
         THEN <<Head(sorted)>> \o InsertSorted(Tail(sorted), def)
         ELSE <<def>> \o sorted

\* list.sort(key=...): ascending, equal keys kept in their input order
RECURSIVE StableSort(_)
StableSort(defs) ==
    IF defs = <<>> THEN <<>>
    ELSE InsertSorted(StableSort(SubSeq(defs, 1, Len(defs) - 1)), defs[Len(defs)])

\* the list generate_template works on: the configured one, or the defaults
\* when it is empty
EffectiveSections(configured) ==
    IF configured = <<>> THEN DefaultSections ELSE configured

\* section.get('order', i + 1), i the 0-based loop index
RecordedOrder(def, i) == IF def.order = NoOrder THEN i + 1 ELSE def.order[1]

\* faulty variant: a failed section is not counted
StatsAfterDroppingFailures(st, raised, is_cached) ==
    IF raised THEN st
    ELSE [st EXCEPT !.successful_sections = @ + 1,
                    !.cached_sections = IF is_cached THEN @ + 1 ELSE @]

\* the counters after one pass of the loop
StatsAfter(st, raised, is_cached) ==
    IF raised
    THEN [st EXCEPT !.failed_sections = @ + 1]
    ELSE [st EXCEPT !.successful_sections = @ + 1,
                    !.cached_sections = IF is_cached THEN @ + 1 ELSE @]

\* prompt = f"dummy_prompt_for_cache_check_{section_name}"
DummyPrompt(name) == "dummy_prompt_for_cache_check_" \o name

\* the client replies explored inside generate_template: an answer that
\* passes validation, one that fails it, the client's fallback, None
TemplateReplies(name) ==
    { ProviderResponse(provider_order[1], "good"),
      ProviderResponse(provider_order[1], "short"),
      FallbackResponse(PromptKeywords(name)), NoneResponse }

\* TemplateCache.__init__ keeps the directory it finds (mkdir exist_ok): the
\* directory is empty, or holds what an earlier generator's
\* generate_section("Introduction", ...) stored in it
CachesLeftBehind(type) ==
    { EmptyCache,
      GenerateSection(EmptyCache, 0, MaxTTL, type, TRUE, FALSE, "Introduction",
                      ReqFDA, "none", "none", NoneResponse).cache }

InitTemplate ==
    /\ now = 0
    /\ template_type \in TemplateTypes
    /\ cache \in CachesLeftBehind(template_type)
    /\ cache_duration = MaxTTL
    /\ last = NoCall
    /\ prev = NoCall
    /\ ops = 0
    /\ \E g \in Constructed :
          /\ use_hardcoded_content = g.use_hardcoded_content
          /\ has_client = g.llm_client
    /\ sec_pc = "off"
    /\ sec_last = NoSectionCall
    /\ llm_invocations = 0
    /\ sections_in \in SectionLists
    /\ template_structure = <<>>
    /\ gen_pc = "idle"
    /\ gen_i = 0
    /\ sections = NoSections
    /\ section_keys = <<>>
    /\ stats = NoStats
    /\ generated = <<>>

\* generate_template up to the loop: defaults for an empty list, the
\* counters, the sort
GenerateTemplateStart ==
    /\ gen_pc = "idle"
    /\ template_structure' = StableSort(EffectiveSections(sections_in))
    /\ stats' = [NoStats EXCEPT
                   !.total_sections = Len(EffectiveSections(sections_in))]
    /\ sections' = NoSections
    /\ section_keys' = <<>>
    /\ generated' = <<>>
    /\ gen_i' = 0
    /\ gen_pc' = "loop"
    /\ UNCHANGED <<template_type, use_hardcoded_content, has_client, sec_pc,
                   sec_last, llm_invocations, sections_in>>
    /\ UNCHANGED <<cacheVars, llmVars, batchVars, jobVars, moreVars>>

\* one pass of `for i, section in enumerate(template_structure)`: the cache
\* pre-check under the dummy prompt, generate_section, the SectionRecord and
\* the counters; the except clause when generate_section raised
GenerateNextSection ==
    /\ gen_pc = "loop"
    /\ gen_i < Len(template_structure)
    /\ \E pfault \in GetFaults, gfault \in GetFaults, sfault \in SetFaults :
       \E reply \in TemplateReplies(template_structure[gen_i + 1].name) :
         LET def == template_structure[gen_i + 1]
             pre == GetOutcome(cache, now, cache_duration,
                               KeyFor(template_type, def.name, DummyPrompt(def.name)),
                               pfault)
             is_cached == pre.hit
             out == GenerateSection(pre.cache, now, cache_duration, template_type,
                                    use_hardcoded_content, has_client, def.name,
                                    def.req, gfault, sfault, reply)
             record == [content |-> IF out.raised
                                    THEN GeneratorFallbackContent(template_type, def.name)
                                    ELSE out.ret,
                        order |-> RecordedOrder(def, gen_i),
                        cached |-> ~out.raised /\ is_cached,
                        error |-> out.raised]
         IN
         /\ cache' = out.cache
         /\ llm_invocations' = llm_invocations + out.invoked
         /\ sections' = [n \in DOMAIN sections \cup {def.name} |->
                           IF n = def.name THEN record ELSE sections[n]]
         /\ section_keys' = IF def.name \in DOMAIN sections THEN section_keys
                            ELSE Append(section_keys, def.name)
         /\ stats' = StatsAfter(stats, out.raised, is_cached)
         /\ generated' = Append(generated, def.name)
    /\ gen_i' = gen_i + 1
    /\ UNCHANGED <<template_type, use_hardcoded_content, has_client, sec_pc,
                   sec_last, sections_in, template_structure, gen_pc>>
    /\ UNCHANGED <<now, cache_duration, last, prev, ops>>
    /\ UNCHANGED <<llmVars, batchVars, jobVars, moreVars>>

\* the loop is over: compliance features, interactive elements, timing, return
GenerateTemplateFinish ==
    /\ gen_pc = "loop"
    /\ gen_i = Len(template_structure)
    /\ gen_pc' = "done"
    /\ UNCHANGED <<template_type, use_hardcoded_content, has_client, sec_pc,
                   sec_last, llm_invocations, sections_in, template_structure,
                   gen_i, sections, section_keys, stats, generated>>
    /\ UNCHANGED <<cacheVars, llmVars, batchVars, jobVars, moreVars>>

NextTemplate ==
    \/ GenerateTemplateStart
    \/ GenerateNextSection
    \/ GenerateTemplateFinish

----------------------------------------------------------------------------
(***************************************************************************)
(* AutomationPipelineManager.generate_all_templates                        *)
(* scripts/automation/pipeline_manager.py                                  *)
(*                                                                         *)
(* A unit is one call of generate_single_template.  In a parallel batch    *)
(* the four units are futures of a ThreadPoolExecutor and the main thread  *)
(* takes them from as_completed in whatever order they finish; in a        *)
(* sequential batch the main thread runs them itself, one after another.   *)
(* Where a unit raises is an input of the batch (raises).                  *)
(***************************************************************************)
template_types == <<"restaurant", "healthcare", "it-onboarding", "customer-service">>

TypeSet == {template_types[i] : i \in 1..Len(template_types)}

max_workers == 4

MaxErrors == 10

RaisePoints == {"none", "assembly", "render"}

NoResult == [template_type |-> "", status |-> "none", error |-> ""]

\* The two dictionaries generate_single_template can return.
UnitResult(type, raised_in) ==
    IF raised_in = "none"
    THEN [template_type |-> type, status |-> "success", error |-> ""]
    ELSE [template_type |-> type, status |-> "error",
          error |-> raised_in \o " failed"]

NoTemplates == [k \in {} |-> NoResult]

NoSummary == [total |-> 0, successful |-> 0, failed |-> 0]

NoMonitoring == [total_runs |-> 0, successful_runs |-> 0, failed_runs |-> 0,
                 errors |-> <<>>]

BatchAtRest ==
    /\ parallel = FALSE
    /\ force_regenerate = FALSE
    /\ raises = [t \in TypeSet |-> "none"]
    /\ batch_pc = "off"
    /\ unit_pc = [t \in TypeSet |-> "off"]
    /\ unit_result = [t \in TypeSet |-> NoResult]
    /\ templates = NoTemplates
    /\ templates_keys = <<>>
    /\ summary = NoSummary
    /\ monitoring_data = NoMonitoring
    /\ scheduled = FALSE
    /\ notification = ""

\* Faulty variant: counts every collected result as a success.
SummaryAfterCountingAllSuccessful(s, result) ==
    [s EXCEPT !.successful = @ + 1]

\* if result['status'] == 'success': successful += 1  else: failed += 1
SummaryAfter(s, result) ==
    IF result.status = "success"
    THEN [s EXCEPT !.successful = @ + 1]
    ELSE [s EXCEPT !.failed = @ + 1]

\* results['templates'][key] = result, keeping the dict's insertion order
DictSet(dict, key, result) ==
    [k \in DOMAIN dict \cup {key} |-> IF k = key THEN result ELSE dict[k]]

KeysAfter(keys, key) ==
    IF \E i \in 1..Len(keys) : keys[i] = key THEN keys ELSE Append(keys, key)

LastN(s, n) ==
    IF Len(s) <= n THEN s ELSE SubSeq(s, Len(s) - n + 1, Len(s))

RECURSIVE ErrorsOf(_, _)
\* the error entries of update_monitoring_data, in the dict's order
ErrorsOf(dict, keys) ==
    IF keys = <<>> THEN <<>>
    ELSE LET r == dict[Head(keys)]
             rest == ErrorsOf(dict, Tail(keys))
         IN IF r.status = "error"
            THEN <<[template_type |-> Head(keys), error |-> r.error]>> \o rest
            ELSE rest

\* Faulty variant: the error list is never cut to its last entries.
UpdateMonitoringDataKeepsAllErrors(m, dict, keys, s) ==
    LET counted == [m EXCEPT !.total_runs = @ + 1]
    IN IF s.failed = 0
       THEN [counted EXCEPT !.successful_runs = @ + 1]
       ELSE [counted EXCEPT !.failed_runs = @ + 1,
                            !.errors = @ \o ErrorsOf(dict, keys)]

UpdateMonitoringData(m, dict, keys, s) ==
    LET counted == [m EXCEPT !.total_runs = @ + 1]
        judged == IF s.failed = 0
                  THEN [counted EXCEPT !.successful_runs = @ + 1]
                  ELSE [counted EXCEPT !.failed_runs = @ + 1,
                                       !.errors = @ \o ErrorsOf(dict, keys)]
    IN [judged EXCEPT !.errors = LastN(@, MaxErrors)]

Running == {t \in TypeSet : unit_pc[t] \in {"started", "assembled"}}

Collected == Len(templates_keys)

\* The type whose unit the main thread may run or collect now: any in a
\* parallel batch, the loop's current one in a sequential batch.
Turn(t) == parallel \/ (Collected < Len(template_types)
                        /\ t = template_types[Collected + 1])

InitBatch ==
    /\ now = 0
    /\ cache = EmptyCache
    /\ cache_duration = MaxTTL
    /\ last = NoCall
    /\ prev = NoCall
    /\ ops = 0
    /\ parallel \in BOOLEAN
    /\ force_regenerate \in BOOLEAN
    /\ raises \in [TypeSet -> RaisePoints]
    /\ batch_pc = "idle"
    /\ unit_pc = [t \in TypeSet |-> "off"]
    /\ unit_result = [t \in TypeSet |-> NoResult]
    /\ templates = NoTemplates
    /\ templates_keys = <<>>
    /\ summary = NoSummary
    /\ monitoring_data = NoMonitoring
    /\ scheduled \in BOOLEAN
    /\ scheduled => (parallel /\ ~force_regenerate)
    /\ notification = ""

\* generate_all_templates up to the submission of the units
GenerateAllTemplates ==
    /\ batch_pc = "idle"
    /\ batch_pc' = "running"
    /\ templates' = NoTemplates
    /\ templates_keys' = <<>>
    /\ summary' = [total |-> Len(template_types), successful |-> 0, failed |-> 0]
    /\ unit_pc' = [t \in TypeSet |-> "pending"]
    /\ UNCHANGED <<parallel, force_regenerate, raises, unit_result, monitoring_data>>
    /\ UNCHANGED <<cacheVars, llmVars, genVars, jobVars, moreVars>>
    /\ UNCHANGED <<scheduled, notification>>

\* generate_single_template: SOPGenerator(template_type) and, when forced,
\* shutil.rmtree of the cache directory all units share
UnitStart ==
    \E t \in TypeSet :
        /\ batch_pc = "running"
        /\ unit_pc[t] = "pending"
        /\ Turn(t)
        /\ parallel => Cardinality(Running) < max_workers
        /\ unit_pc' = [unit_pc EXCEPT ![t] = "started"]
        /\ cache' = IF force_regenerate THEN EmptyCache ELSE cache
        /\ UNCHANGED <<now, cache_duration, last, prev, ops>>
        /\ UNCHANGED <<parallel, force_regenerate, raises, batch_pc, unit_result,
                       templates, templates_keys, summary, monitoring_data>>
        /\ UNCHANGED <<llmVars, genVars, jobVars, moreVars>>
        /\ UNCHANGED <<scheduled, notification>>

\* generate_single_template: generate_template and save_template; an
\* exception is caught at the end of the unit and becomes its error result.
\* One cache entry under the unit's type stands for the sections it caches.
UnitAssemble ==
    \E t \in TypeSet :
        /\ batch_pc = "running"
        /\ unit_pc[t] = "started"
        /\ IF raises[t] = "assembly"
           THEN /\ unit_pc' = [unit_pc EXCEPT ![t] = "finished"]
                /\ unit_result' = [unit_result EXCEPT ![t] = UnitResult(t, "assembly")]
                /\ cache' = cache
           ELSE /\ unit_pc' = [unit_pc EXCEPT ![t] = "assembled"]
                /\ unit_result' = unit_result
                /\ cache' = SetOutcome(cache, now,
                                KeyFor(t, "Introduction",
                                       BuildPrompt(t, "Introduction", ReqEmpty)),
                                HardcodedContent(t, "Introduction"), "none")
        /\ UNCHANGED <<now, cache_duration, last, prev, ops>>
        /\ UNCHANGED <<parallel, force_regenerate, raises, batch_pc,
                       templates, templates_keys, summary, monitoring_data>>
        /\ UNCHANGED <<llmVars, genVars, jobVars, moreVars>>
        /\ UNCHANGED <<scheduled, notification>>

\* generate_single_template: generate_enhanced_pdf and the result dictionary
UnitRender ==
    \E t \in TypeSet :
        /\ batch_pc = "running"
        /\ unit_pc[t] = "assembled"
        /\ unit_pc' = [unit_pc EXCEPT ![t] = "finished"]
        /\ unit_result' = [unit_result EXCEPT ![t] = UnitResult(t, raises[t])]
        /\ UNCHANGED <<parallel, force_regenerate, raises, batch_pc,
                       templates, templates_keys, summary, monitoring_data>>
        /\ UNCHANGED <<cacheVars, llmVars, genVars, jobVars, moreVars>>
        /\ UNCHANGED <<scheduled, notification>>

\* One turn of the loop over as_completed (parallel) or the statements after
\* the call in the sequential loop: store the result and count it.
CollectResult ==
    \E t \in TypeSet :
        /\ batch_pc = "running"
        /\ unit_pc[t] = "finished"
        /\ Turn(t)
        /\ templates' = DictSet(templates, t, unit_result[t])
        /\ templates_keys' = KeysAfter(templates_keys, t)
        /\ summary' = SummaryAfter(summary, unit_result[t])
        /\ unit_pc' = [unit_pc EXCEPT ![t] = "collected"]
        /\ UNCHANGED <<parallel, force_regenerate, raises, batch_pc, unit_result,
                       monitoring_data>>
        /\ UNCHANGED <<cacheVars, llmVars, genVars, jobVars, moreVars>>
        /\ UNCHANGED <<scheduled, notification>>

\* generate_all_templates after the loop: update_monitoring_data, which
\* counts the run and then writes logs/monitoring.json, generate_batch_report
\* and return; an exception of either file write escapes to the caller
BatchFinish ==
    /\ batch_pc = "running"
    /\ \A t \in TypeSet : unit_pc[t] = "collected"
    /\ monitoring_data' = UpdateMonitoringData(monitoring_data, templates,
                                               templates_keys, summary)
    /\ \E write_raises \in BOOLEAN :
          batch_pc' = IF write_raises THEN "raised" ELSE "done"
    /\ UNCHANGED <<parallel, force_regenerate, raises, unit_pc, unit_result,
                   templates, templates_keys, summary>>
    /\ UNCHANGED <<cacheVars, llmVars, genVars, jobVars, moreVars>>
    /\ UNCHANGED <<scheduled, notification>>

\* the subject run_scheduled_generation passes to send_notification
NotificationFor(raised, s) ==
    IF raised THEN "Batch Generation Failed"
    ELSE IF s.failed = 0 THEN "Batch Generation Successful"
    ELSE "Batch Generation Partial Failure"

\* run_scheduled_generation after generate_all_templates returned or raised
SendNotification ==
    /\ scheduled
    /\ batch_pc \in {"done", "raised"}
    /\ notification = ""
    /\ notification' = NotificationFor(batch_pc = "raised", summary)
    /\ UNCHANGED <<parallel, force_regenerate, raises, batch_pc, unit_pc,
                   unit_result, templates, templates_keys, summary,
                   monitoring_data, scheduled>>
    /\ UNCHANGED <<cacheVars, llmVars, genVars, jobVars, moreVars>>

NextBatch ==
    \/ GenerateAllTemplates
    \/ UnitStart
    \/ UnitAssemble
    \/ UnitRender
    \/ CollectResult
    \/ BatchFinish
    \/ SendNotification

----------------------------------------------------------------------------
(***************************************************************************)
(* Generation router: api/routers/generation.py                            *)
(*                                                                         *)
(* Handlers and the background task run on one event loop: a handler is    *)
(* one step, generate_sop_async is one step up to its await and one step   *)
(* after it.                                                                *)
(***************************************************************************)
MaxJobs == 2

MaxRequests == 3

TemplateIds == {"restaurant-opening", "restaurant-closing",
                "healthcare-patient-care", "it-onboarding"}

\* template_id values a request may carry: a known one and an unknown one
RequestTemplateIds == {"restaurant-opening", "unknown-template"}

\* company_info.name values: a usable one and one too short once stripped
CompanyNames == {"Acme Diner", " "}

NameTooShort(name) == name = " "

JobStatuses == {"pending", "processing", "completed", "failed", "cancelled"}

\* GenerationStatus(generation_id=..., status="pending", progress=0, ...)
NewJob == [status |-> "pending", progress |-> 0,
           current_step |-> "Queued for generation...",
           result |-> FALSE, error |-> ""]

NoJobs == [id \in {} |-> NewJob]

NoReply == [op |-> "none", id |-> 0, code |-> 0]

JobsAtRest ==
    /\ generation_jobs = NoJobs
    /\ task_pc = [id \in {} |-> "none"]
    /\ http_last = NoReply
    /\ requests = 0

\* generation ids a request may name: the jobs created so far and one that
\* was never issued
JobIds == 1..MaxJobs

UnknownId == 0

\* `if job.status in ["completed", "failed"]`
CancelRejected(status) == status \in {"completed", "failed"}

InitJobs ==
    /\ generation_jobs = NoJobs
    /\ task_pc = [id \in {} |-> "none"]
    /\ http_last = NoReply
    /\ requests = 0

\* POST /generate: validation, then the job record and the background task
StartGeneration ==
    /\ requests < MaxRequests
    /\ \E template_id \in RequestTemplateIds, name \in CompanyNames :
         IF template_id \notin TemplateIds \/ NameTooShort(name)
         THEN /\ http_last' = [op |-> "start", id |-> 0, code |-> 400]
              /\ UNCHANGED <<generation_jobs, task_pc>>
         ELSE LET id == Cardinality(DOMAIN generation_jobs) + 1 IN
              /\ id <= MaxJobs
              /\ generation_jobs' = [j \in DOMAIN generation_jobs \cup {id} |->
                                       IF j = id THEN NewJob ELSE generation_jobs[j]]
              /\ task_pc' = [j \in DOMAIN task_pc \cup {id} |->
                                IF j = id THEN "queued" ELSE task_pc[j]]
              /\ http_last' = [op |-> "start", id |-> id, code |-> 200]
    /\ requests' = requests + 1
    /\ UNCHANGED <<cacheVars, llmVars, genVars, batchVars, moreVars>>

\* generate_sop_async up to `await asyncio.to_thread(...)`
TaskBegin ==
    \E id \in DOMAIN generation_jobs :
        /\ task_pc[id] = "queued"
        /\ generation_jobs' = [generation_jobs EXCEPT
                                 ![id].status = "processing",
                                 ![id].progress = 30,
                                 ![id].current_step = "Generating content with AI..."]
        /\ task_pc' = [task_pc EXCEPT ![id] = "awaiting"]
        /\ UNCHANGED <<http_last, requests>>
        /\ UNCHANGED <<cacheVars, llmVars, genVars, batchVars, moreVars>>

\* generate_sop_async after the await, generate_sop having returned
TaskComplete ==
    \E id \in DOMAIN generation_jobs :
        /\ task_pc[id] = "awaiting"
        /\ generation_jobs' = [generation_jobs EXCEPT
                                 ![id].status = "completed",
                                 ![id].progress = 100,
                                 ![id].current_step = "Generation complete!",
                                 ![id].result = TRUE]
        /\ task_pc' = [task_pc EXCEPT ![id] = "done"]
        /\ UNCHANGED <<http_last, requests>>
        /\ UNCHANGED <<cacheVars, llmVars, genVars, batchVars, moreVars>>

\* generate_sop_async after the await, generate_sop having raised: the
\* except clause
TaskFail ==
    \E id \in DOMAIN generation_jobs :
        /\ task_pc[id] = "awaiting"
        /\ generation_jobs' = [generation_jobs EXCEPT
                                 ![id].status = "failed",
                                 ![id].error = "generation error",
                                 ![id].current_step = "Generation failed: generation error"]
        /\ task_pc' = [task_pc EXCEPT ![id] = "done"]
        /\ UNCHANGED <<http_last, requests>>
        /\ UNCHANGED <<cacheVars, llmVars, genVars, batchVars, moreVars>>

\* DELETE /generate/{generation_id}
CancelGeneration ==
    /\ requests < MaxRequests
    /\ \E id \in JobIds \cup {UnknownId} :
         IF id \notin DOMAIN generation_jobs
         THEN /\ http_last' = [op |-> "cancel", id |-> id, code |-> 404]
              /\ UNCHANGED generation_jobs
         ELSE IF CancelRejected(generation_jobs[id].status)
         THEN /\ http_last' = [op |-> "cancel", id |-> id, code |-> 400]
              /\ UNCHANGED generation_jobs
         ELSE /\ generation_jobs' = [generation_jobs EXCEPT
                                       ![id].status = "cancelled",
                                       ![id].current_step = "Generation cancelled by user"]
              /\ http_last' = [op |-> "cancel", id |-> id, code |-> 200]
    /\ requests' = requests + 1
    /\ UNCHANGED task_pc
    /\ UNCHANGED <<cacheVars, llmVars, genVars, batchVars, moreVars>>

NextJobs ==
    \/ StartGeneration
    \/ TaskBegin
    \/ TaskComplete
    \/ TaskFail
    \/ CancelGeneration

----------------------------------------------------------------------------
(***************************************************************************)
(* TemplateCache.get and TemplateCache.set called by several workers on    *)
(* one fingerprint, with no lock.  A step is one file-system call of the   *)
(* method: exists, stat, unlink, open-and-load for get; open(.., 'wb') and *)
(* the write of the pickle for set.  The cache path names an inode; a      *)
(* writer keeps the inode it opened, also after the path was unlinked.     *)
(***************************************************************************)
MaxWorkers == 2

MaxCalls == 3

Workers == 1..MaxWorkers

\* the fingerprint every worker uses
RaceKey == KeyFor("restaurant", "Introduction", "p1")

RaceContents == {"text1", "text2"}

NoWorkerCall == [op |-> "none", content |-> None, fd |-> 0, ret |-> None,
                 raised |-> FALSE]

RaceAtRest ==
    /\ w_pc = [w \in {} |-> "idle"]
    /\ w_call = [w \in {} |-> NoWorkerCall]
    /\ file_inode = 0
    /\ inodes_made = 0
    /\ set_contents = {}
    /\ last_set_at = 0

\* the directory holds no file for the fingerprint, or the one an earlier
\* set("text1") left at time 0
InitRace ==
    /\ now = 0
    /\ cache_duration \in 0..MaxTTL
    /\ last = NoCall
    /\ prev = NoCall
    /\ ops = 0
    /\ \/ /\ cache = EmptyCache
          /\ file_inode = 0
          /\ inodes_made = 0
          /\ set_contents = {}
          /\ last_set_at = -1
       \/ /\ cache = SetOutcome(EmptyCache, 0, RaceKey, "text1", "none")
          /\ file_inode = 1
          /\ inodes_made = 1
          /\ set_contents = {"text1"}
          /\ last_set_at = 0
    /\ w_pc = [w \in Workers |-> "idle"]
    /\ w_call = [w \in Workers |-> NoWorkerCall]

RaceFrame == UNCHANGED <<llmVars, genVars, batchVars, jobVars, serverVars>>

\* the file the path names is removed from the directory
Unlinked(c) == [k \in DOMAIN c \ {RaceKey} |-> c[k]]

\* a worker returns from get with `ret`
GetReturns(w, ret) ==
    /\ w_pc' = [w_pc EXCEPT ![w] = "idle"]
    /\ w_call' = [w_call EXCEPT ![w].ret = ret]

\* time passes between the steps of the workers
RaceTick ==
    /\ now < MaxTime
    /\ now' = now + 1
    /\ UNCHANGED <<cache, cache_duration, last, prev, ops>>
    /\ UNCHANGED raceVars
    /\ RaceFrame

\* a worker enters get or set
WorkerCalls ==
    \E w \in Workers :
        /\ w_pc[w] = "idle"
        /\ ops < MaxCalls
        /\ ops' = ops + 1
        /\ \/ /\ w_pc' = [w_pc EXCEPT ![w] = "get_exists"]
              /\ w_call' = [w_call EXCEPT ![w] = [NoWorkerCall EXCEPT !.op = "get"]]
           \/ \E content \in RaceContents :
                /\ w_pc' = [w_pc EXCEPT ![w] = "set_open"]
                /\ w_call' = [w_call EXCEPT ![w] =
                                [NoWorkerCall EXCEPT !.op = "set",
                                                     !.content = content]]
        /\ UNCHANGED <<now, cache, cache_duration, last, prev>>
        /\ UNCHANGED <<file_inode, inodes_made, set_contents, last_set_at>>
        /\ RaceFrame

\* get: `if not cache_path.exists(): return None`
GetExists ==
    \E w \in Workers :
        /\ w_pc[w] = "get_exists"
        /\ IF RaceKey \in DOMAIN cache
           THEN /\ w_pc' = [w_pc EXCEPT ![w] = "get_stat"]
                /\ UNCHANGED w_call
           ELSE GetReturns(w, None)
        /\ UNCHANGED cacheVars
        /\ UNCHANGED <<file_inode, inodes_made, set_contents, last_set_at>>
        /\ RaceFrame

\* get: cache_path.stat().st_mtime and the age test; stat raises when the
\* file is gone, and the except clause returns None
GetStat ==
    \E w \in Workers :
        /\ w_pc[w] = "get_stat"
        /\ IF RaceKey \notin DOMAIN cache
           THEN GetReturns(w, None)
           ELSE /\ w_pc' = [w_pc EXCEPT ![w] =
                              IF EntryExpired(cache[RaceKey], now, cache_duration)
                              THEN "get_unlink" ELSE "get_load"]
                /\ UNCHANGED w_call
        /\ UNCHANGED cacheVars
        /\ UNCHANGED <<file_inode, inodes_made, set_contents, last_set_at>>
        /\ RaceFrame

\* get: cache_path.unlink() of the entry found expired, then return None
\* (unlink raising on a missing file ends in the except clause: None)
GetUnlink ==
    \E w \in Workers :
        /\ w_pc[w] = "get_unlink"
        /\ cache' = Unlinked(cache)
        /\ file_inode' = 0
        /\ GetReturns(w, None)
        /\ UNCHANGED <<now, cache_duration, last, prev, ops>>
        /\ UNCHANGED <<inodes_made, set_contents, last_set_at>>
        /\ RaceFrame

\* get: open(cache_path, 'rb') and pickle.load; a missing file and a pickle
\* that is not complete raise, and the except clause returns None
GetLoad ==
    \E w \in Workers :
        /\ w_pc[w] = "get_load"
        /\ IF RaceKey \in DOMAIN cache /\ cache[RaceKey].complete
           THEN GetReturns(w, cache[RaceKey].content)
           ELSE GetReturns(w, None)
        /\ UNCHANGED cacheVars
        /\ UNCHANGED <<file_inode, inodes_made, set_contents, last_set_at>>
        /\ RaceFrame

\* set: open(cache_path, 'wb') creates the file or truncates the one there
SetOpen ==
    \E w \in Workers :
        /\ w_pc[w] = "set_open"
        /\ cache' = SetOutcome(cache, now, RaceKey, w_call[w].content, "torn")
        /\ IF file_inode = 0
           THEN /\ inodes_made' = inodes_made + 1
                /\ file_inode' = inodes_made + 1
                /\ w_call' = [w_call EXCEPT ![w].fd = inodes_made + 1]
           ELSE /\ UNCHANGED <<inodes_made, file_inode>>
                /\ w_call' = [w_call EXCEPT ![w].fd = file_inode]
        /\ w_pc' = [w_pc EXCEPT ![w] = "set_write"]
        /\ UNCHANGED <<now, cache_duration, last, prev, ops>>
        /\ UNCHANGED <<set_contents, last_set_at>>
        /\ RaceFrame

\* set: pickle.dump and the close of the file; the bytes go to the inode
\* that was opened, which the path may no longer name
SetWrite ==
    \E w \in Workers :
        /\ w_pc[w] = "set_write"
        /\ cache' = IF file_inode = w_call[w].fd
                    THEN SetOutcome(cache, now, RaceKey, w_call[w].content, "none")
                    ELSE cache
        /\ set_contents' = set_contents \cup {w_call[w].content}
        /\ last_set_at' = now
        /\ w_pc' = [w_pc EXCEPT ![w] = "idle"]
        /\ UNCHANGED <<now, cache_duration, last, prev, ops>>
        /\ UNCHANGED <<w_call, file_inode, inodes_made>>
        /\ RaceFrame

NextRace ==
    \/ RaceTick
    \/ WorkerCalls
    \/ GetExists
    \/ GetStat
    \/ GetUnlink
    \/ GetLoad
    \/ SetOpen
    \/ SetWrite

----------------------------------------------------------------------------
(***************************************************************************)
(* Simple server: api/simple_server.py                                     *)
(*                                                                         *)
(* POST /api/v1/generate stores a job in generation_jobs and starts a      *)
(* thread on it; GET .../status sends the job's dictionary as it is at     *)
(* that moment.  A step of a thread is one store into the job dictionary   *)
(* or one call that may raise.                                             *)
(***************************************************************************)
Store(field, value) == [kind |-> "store", field |-> field, value |-> value]

Call(what) == [kind |-> "call", field |-> what, value |-> ""]

\* _background_generation: the statements of the try block
BackgroundProgram ==
    << Store("status", "processing"),
       Store("progress", 10),
       Store("current_step", "Initializing generation..."),
       Call("SOPGenerator"),
       Store("progress", 30),
       Store("current_step", "Generating content with AI..."),
       Call("generate_template"),
       Store("progress", 90),
       Store("current_step", "Finalizing document..."),
       Store("status", "completed"),
       Store("progress", 100),
       Store("current_step", "Generation complete!"),
       Store("result", TRUE) >>

\* _background_generation: the statements of the except clause
ExceptProgram ==
    << Store("status", "failed"),
       Store("error", "generation error"),
       Store("current_step", "Generation failed: generation error") >>

\* _mock_generation, the loop over steps unrolled (time.sleep between them)
MockProgram ==
    << Store("status", "processing"),
       Store("progress", 20),
       Store("current_step", "Initializing AI provider..."),
       Store("progress", 40),
       Store("current_step", "Generating introduction section..."),
       Store("progress", 60),
       Store("current_step", "Creating procedure steps..."),
       Store("progress", 80),
       Store("current_step", "Adding compliance requirements..."),
       Store("progress", 100),
       Store("current_step", "Generation complete!"),
       Store("status", "completed"),
       Store("result", TRUE) >>

ProgramOf(name) ==
    CASE name = "background" -> BackgroundProgram
      [] name = "except" -> ExceptProgram
      [] name = "mock" -> MockProgram

\* position of a thread: the program it runs and the statement it is at
At(name, i) == [program |-> name, at |-> i]

ThreadDone == At("none", 0)

\* the statement after position pos, or the end of the thread
After(pos) ==
    IF pos.at < Len(ProgramOf(pos.program))
    THEN At(pos.program, pos.at + 1) ELSE ThreadDone

\* request fields of POST /api/v1/generate: present or missing
SimpleTemplateIds == {"restaurant-opening", ""}

SimpleCompanyNames == {"Acme Diner", ""}

NoBody == [status |-> "", progress |-> 0, current_step |-> "",
           result |-> FALSE, error |-> ""]

Reply(op, id, code, body) == [op |-> op, id |-> id, code |-> code, body |-> body]

InitSimple ==
    /\ generation_jobs = NoJobs
    /\ task_pc = [id \in {} |-> ThreadDone]
    /\ http_last = Reply("none", 0, 0, NoBody)
    /\ requests = 0
    /\ generators_available \in BOOLEAN

SimpleFrame == UNCHANGED <<cacheVars, llmVars, genVars, batchVars, raceVars>>

\* _handle_start_generation: validation, the job dictionary (the keys status,
\* progress and current_step; result and error are not yet present), the
\* thread on _background_generation or _mock_generation, the 202 response
HandleStartGeneration ==
    /\ requests < MaxRequests
    /\ \E template_id \in SimpleTemplateIds, name \in SimpleCompanyNames :
         IF template_id = "" \/ name = ""
         THEN /\ http_last' = Reply("start", 0, 400, NoBody)
              /\ UNCHANGED <<generation_jobs, task_pc>>
         ELSE LET id == Cardinality(DOMAIN generation_jobs) + 1 IN
              /\ id <= MaxJobs
              /\ generation_jobs' = [j \in DOMAIN generation_jobs \cup {id} |->
                                       IF j = id THEN NewJob ELSE generation_jobs[j]]
              /\ task_pc' = [j \in DOMAIN task_pc \cup {id} |->
                                IF j = id
                                THEN At(IF generators_available
                                        THEN "background" ELSE "mock", 1)
                                ELSE task_pc[j]]
              /\ http_last' = Reply("start", id, 202, NoBody)
    /\ requests' = requests + 1
    /\ UNCHANGED generators_available
    /\ SimpleFrame

\* a thread executes a store into its job dictionary
ThreadStores ==
    \E id \in DOMAIN generation_jobs :
        /\ task_pc[id] # ThreadDone
        /\ LET stmt == ProgramOf(task_pc[id].program)[task_pc[id].at] IN
           /\ stmt.kind = "store"
           /\ generation_jobs' = [generation_jobs EXCEPT
                                    ![id] = [@ EXCEPT ![stmt.field] = stmt.value]]
        /\ task_pc' = [task_pc EXCEPT ![id] = After(@)]
        /\ UNCHANGED <<http_last, requests, generators_available>>
        /\ SimpleFrame

\* SOPGenerator(template_type) or generator.generate_template() returns
ThreadCallReturns ==
    \E id \in DOMAIN generation_jobs :
        /\ task_pc[id] # ThreadDone
        /\ ProgramOf(task_pc[id].program)[task_pc[id].at].kind = "call"
        /\ task_pc' = [task_pc EXCEPT ![id] = After(@)]
        /\ UNCHANGED <<generation_jobs, http_last, requests, generators_available>>
        /\ SimpleFrame

\* ... or raises: the thread goes on in the except clause
ThreadCallRaises ==
    \E id \in DOMAIN generation_jobs :
        /\ task_pc[id] # ThreadDone
        /\ ProgramOf(task_pc[id].program)[task_pc[id].at].kind = "call"
        /\ task_pc' = [task_pc EXCEPT ![id] = At("except", 1)]
        /\ UNCHANGED <<generation_jobs, http_last, requests, generators_available>>
        /\ SimpleFrame

\* _handle_get_generation_status: the job dictionary as it is now, or 404
HandleGetGenerationStatus ==
    /\ \E id \in JobIds \cup {UnknownId} :
         http_last' = IF id \in DOMAIN generation_jobs
                      THEN Reply("status", id, 200, generation_jobs[id])
                      ELSE Reply("status", id, 404, NoBody)
    /\ UNCHANGED <<generation_jobs, task_pc, requests, generators_available>>
    /\ SimpleFrame

NextSimple ==
    \/ HandleStartGeneration
    \/ ThreadStores
    \/ ThreadCallReturns
    \/ ThreadCallRaises
    \/ HandleGetGenerationStatus

\* the simple server at rest
ServerAtRest == generators_available = FALSE

----------------------------------------------------------------------------
(***************************************************************************)
(* AutomationPipelineManager over several batch runs: one step is one      *)
(* whole generate_all_templates(force_regenerate=False, parallel=...)      *)
(* call, as the scheduler and the command line make them one after         *)
(* another on the same manager.                                            *)
(***************************************************************************)
MaxBatchRuns == 3

\* the template types whose unit raises (while rendering) in a run
RunFailures ==
    { {}, {"restaurant"}, {"healthcare"}, {"restaurant", "it-onboarding"},
      {"healthcare", "it-onboarding", "customer-service"}, TypeSet }

RunOutcome(failing) == [t \in TypeSet |-> IF t \in failing THEN "render" ELSE "none"]

Reverse(s) == [i \in 1..Len(s) |-> s[Len(s) + 1 - i]]

\* the orders results are stored in: the loop's in a sequential run, the
\* completion order (here: first to last or last to first) in a parallel one
CompletionOrders(par) ==
    IF par THEN {template_types, Reverse(template_types)} ELSE {template_types}

RECURSIVE CollectAll(_, _, _, _, _)
\* the loop storing and counting the unit results, taken in `order`
CollectAll(order, outcome, dict, keys, s) ==
    IF order = <<>>
    THEN [templates |-> dict, keys |-> keys, summary |-> s]
    ELSE LET t == Head(order)
             result == UnitResult(t, outcome[t])
         IN CollectAll(Tail(order), outcome, DictSet(dict, t, result),
                       KeysAfter(keys, t), SummaryAfter(s, result))

RECURSIVE CacheAfterUnits(_, _)
\* the cache once the units of the types in `types` have cached their sections
CacheAfterUnits(c, types) ==
    IF types = {} THEN c
    ELSE LET t == CHOOSE x \in types : TRUE
         IN CacheAfterUnits(
                SetOutcome(c, now,
                           KeyFor(t, "Introduction",
                                  BuildPrompt(t, "Introduction", ReqEmpty)),
                           HardcodedContent(t, "Introduction"), "none"),
                types \ {t})

\* the manager after __init__
InitRuns ==
    /\ now = 0
    /\ cache = EmptyCache
    /\ cache_duration = MaxTTL
    /\ last = NoCall
    /\ prev = NoCall
    /\ ops = 0
    /\ parallel = FALSE
    /\ force_regenerate = FALSE
    /\ raises = [t \in TypeSet |-> "none"]
    /\ batch_pc = "idle"
    /\ unit_pc = [t \in TypeSet |-> "off"]
    /\ unit_result = [t \in TypeSet |-> NoResult]
    /\ templates = NoTemplates
    /\ templates_keys = <<>>
    /\ summary = NoSummary
    /\ monitoring_data = NoMonitoring
    /\ scheduled = FALSE
    /\ notification = ""

\* generate_all_templates from call to return
RunAllTemplates ==
    /\ monitoring_data.total_runs < MaxBatchRuns
    /\ \E par \in BOOLEAN, failing \in RunFailures :
       \E order \in CompletionOrders(par) :
         LET outcome == RunOutcome(failing)
             report == CollectAll(order, outcome, NoTemplates, <<>>,
                                  [total |-> Len(template_types),
                                   successful |-> 0, failed |-> 0])
         IN
         /\ parallel' = par
         /\ raises' = outcome
         /\ unit_result' = [t \in TypeSet |-> UnitResult(t, outcome[t])]
         /\ templates' = report.templates
         /\ templates_keys' = report.keys
         /\ summary' = report.summary
         /\ monitoring_data' = UpdateMonitoringData(monitoring_data, report.templates,
                                                    report.keys, report.summary)
    /\ cache' = CacheAfterUnits(cache, TypeSet)
    /\ unit_pc' = [t \in TypeSet |-> "collected"]
    /\ batch_pc' = "done"
    /\ UNCHANGED <<now, cache_duration, last, prev, ops>>
    /\ UNCHANGED <<force_regenerate, scheduled, notification>>
    /\ UNCHANGED <<llmVars, genVars, jobVars, moreVars>>

NextRuns == RunAllTemplates

----------------------------------------------------------------------------
(* Specifications *)

InitSpecCache ==
    /\ InitCache
    /\ LLMAtRest
    /\ GenAtRest
    /\ BatchAtRest
    /\ JobsAtRest
    /\ RaceAtRest
    /\ ServerAtRest

SpecCache == InitSpecCache /\ [][NextCache]_vars

InitSpecLLM ==
    /\ InitLLM
    /\ CacheAtRest
    /\ GenAtRest
    /\ BatchAtRest
    /\ JobsAtRest
    /\ RaceAtRest
    /\ ServerAtRest

SpecLLM == InitSpecLLM /\ [][NextLLM]_vars

InitSpecSection ==
    /\ InitSection
    /\ LLMAtRest
    /\ BatchAtRest
    /\ JobsAtRest
    /\ RaceAtRest
    /\ ServerAtRest

SpecSection == InitSpecSection /\ [][NextSection]_vars

InitSpecTemplate ==
    /\ InitTemplate
    /\ LLMAtRest
    /\ BatchAtRest
    /\ JobsAtRest
    /\ RaceAtRest
    /\ ServerAtRest

SpecTemplate == InitSpecTemplate /\ [][NextTemplate]_vars

InitSpecBatch ==
    /\ InitBatch
    /\ LLMAtRest
    /\ GenAtRest
    /\ JobsAtRest
    /\ RaceAtRest
    /\ ServerAtRest

SpecBatch == InitSpecBatch /\ [][NextBatch]_vars

InitSpecJobs ==
    /\ InitJobs
    /\ CacheAtRest
    /\ LLMAtRest
    /\ GenAtRest
    /\ BatchAtRest
    /\ RaceAtRest
    /\ ServerAtRest

SpecJobs == InitSpecJobs /\ [][NextJobs]_vars

InitSpecRace ==
    /\ InitRace
    /\ LLMAtRest
    /\ GenAtRest
    /\ BatchAtRest
    /\ JobsAtRest
    /\ ServerAtRest

SpecRace == InitSpecRace /\ [][NextRace]_vars

InitSpecSimple ==
    /\ InitSimple
    /\ CacheAtRest
    /\ LLMAtRest
    /\ GenAtRest
    /\ BatchAtRest
    /\ RaceAtRest

SpecSimple == InitSpecSimple /\ [][NextSimple]_vars

InitSpecRuns ==
    /\ InitRuns
    /\ LLMAtRest
    /\ GenAtRest
    /\ JobsAtRest
    /\ RaceAtRest
    /\ ServerAtRest

SpecRuns == InitSpecRuns /\ [][NextRuns]_vars

----------------------------------------------------------------------------
(* Claims about TemplateCache *)

\* a get that directly follows a set with identical arguments
GetRightAfterSet ==
    /\ prev.op = "set"
    /\ last.op = "get"
    /\ last.key = prev.key

\* C1 (as stated): set followed immediately by get with identical arguments
\* returns exactly the content that was set, provided the TTL has not elapsed.
C1_RoundTripAsStated ==
    (GetRightAfterSet /\ last.at - prev.at <= cache_duration)
        => (last.hit /\ last.ret = prev.content)

\* C1 (amended): the round trip holds provided the TTL has not elapsed and
\* neither call ran into an error, which both calls swallow (set then stores
\* nothing usable and get answers absent).
C1_RoundTrip ==
    (/\ GetRightAfterSet
     /\ last.at - prev.at <= cache_duration
     /\ prev.fault = "none"
     /\ last.fault = "none")
        => (last.hit /\ last.ret = prev.content)

C1_Witness ==
    /\ GetRightAfterSet
    /\ prev.fault = "none"
    /\ last.fault = "none"
    /\ cache_duration > 0
    /\ last.at - prev.at = cache_duration
    /\ last.hit
    /\ last.ret = "text1"

\* C2 (as stated): get never returns an entry older than the TTL, and with a
\* TTL of 0 a get issued immediately after a set of the same triple returns
\* absent.
C2_ImmediateExpiryAsStated ==
    /\ (last.op = "get" /\ last.hit) => last.age <= cache_duration
    /\ (GetRightAfterSet /\ cache_duration = 0) => ~last.hit

\* C2 (amended): get never returns an entry whose age exceeds the TTL; with a
\* TTL of 0 a get after a set returns absent as soon as the entry's age is
\* above zero, while an entry read at the very clock reading it was written
\* at (age 0, which does not exceed 0) is still returned.
C2_NoStaleEntry ==
    /\ (last.op = "get" /\ last.hit) => last.age <= cache_duration
    /\ (GetRightAfterSet /\ cache_duration = 0 /\ last.at > prev.at)
           => ~last.hit

C2_Witness ==
    /\ GetRightAfterSet
    /\ prev.fault = "none"
    /\ last.fault = "none"
    /\ cache_duration = 0
    /\ last.at > prev.at
    /\ ~last.hit
    /\ last.key \notin DOMAIN cache

----------------------------------------------------------------------------
(* Claims about FreeLLMClient.generate_content *)

\* every enabled provider was attempted and gave up after its last attempt
\* failed (none is enabled: every provider is disabled)
AllEnabledGaveUp == \A p \in Providers : providers[p] => p \in llm_gaveup

\* C3: in AUTO mode generate_content never raises, and when every provider
\* is disabled or every enabled provider has failed all its attempts it
\* returns a response with non-empty content and provider = "fallback".
C3_AutoFallback ==
    /\ IsAuto => ~llm_raised
    /\ (llm_pc = "done" /\ IsAuto /\ AllEnabledGaveUp)
          => /\ llm_result.provider = "fallback"
             /\ TextLen(llm_result.content) > 0

C3_Witness ==
    /\ llm_pc = "done"
    /\ IsAuto
    /\ providers["groq"] /\ providers["together"]
    /\ AllEnabledGaveUp
    /\ retry_attempts = 2
    /\ llm_calls["groq"] = 2 /\ llm_calls["together"] = 2
    /\ llm_result.provider = "fallback"
    /\ ~llm_raised

\* C4: in AUTO mode, if an enabled provider A errors on every call and a
\* later enabled provider B succeeds, the result carries B's identifier and
\* A was called exactly retry_attempts times.
C4_FallThroughAfterRetries ==
    \A a, b \in 1..Len(provider_order) :
       (/\ llm_pc = "done"
        /\ IsAuto
        /\ a < b
        /\ providers[provider_order[a]]
        /\ providers[provider_order[b]]
        /\ llm_ok[provider_order[a]] = 0
        /\ llm_ok[provider_order[b]] > 0)
           => /\ llm_result.provider = provider_order[b]
              /\ llm_calls[provider_order[a]] = retry_attempts

C4_Witness ==
    /\ llm_pc = "done"
    /\ IsAuto
    /\ providers["groq"]
    /\ retry_attempts = 3
    /\ llm_calls["groq"] = 3
    /\ llm_ok["groq"] = 0
    /\ llm_ok["together"] = 1
    /\ llm_result.provider = "together"

----------------------------------------------------------------------------
(* Claims about SOPGenerator.generate_section *)

SectionReturned == sec_last.how # "none"

\* C5: generate_section never raises to its caller: for every section name,
\* requirements value, cache state and client outcome it returns cached,
\* freshly generated, hardcoded or fallback content.
C5_SectionNeverRaises ==
    SectionReturned
        => /\ ~sec_last.raised
           /\ sec_last.how \in {"cached", "generated", "hardcoded", "fallback"}

\* C6: in either mode and for any cache contents, the string generate_section
\* returns has length >= 100 and holds at least one markdown marker.
C6_SectionAlwaysValid ==
    (SectionReturned /\ ~sec_last.raised)
        => /\ TextLen(sec_last.ret) >= MinValidLength
           /\ TextHasMarker(sec_last.ret)

----------------------------------------------------------------------------
(* Claims about SOPGenerator.generate_template *)

NamesOf(defs) == {defs[i].name : i \in 1..Len(defs)}

FailingIn(defs) == {i \in 1..Len(defs) : ~defs[i].req.wellformed}

\* C7 (as stated): for every input section list the document holds exactly
\* one SectionRecord per input section definition, total_sections equals the
\* number of input sections and successful + failed == total.
C7_OneRecordPerDefinitionAsStated ==
    gen_pc = "done"
        => /\ Cardinality(DOMAIN sections) = Len(sections_in)
           /\ stats.total_sections = Len(sections_in)
           /\ stats.successful_sections + stats.failed_sections
                 = stats.total_sections

\* C7 (amended): for every input section list (an empty list being replaced
\* by the four default sections) every definition is processed, whatever
\* sections failed: total_sections is the number of definitions, successful
\* + failed == total with failed the number of sections whose generation
\* raised, and `sections` holds exactly one SectionRecord per distinct
\* section name -- definitions that share a name share one record.
C7_OneRecordPerName ==
    gen_pc = "done"
        => /\ DOMAIN sections = NamesOf(EffectiveSections(sections_in))
           /\ Len(generated) = Len(EffectiveSections(sections_in))
           /\ stats.total_sections = Len(EffectiveSections(sections_in))
           /\ stats.failed_sections
                 = Cardinality(FailingIn(EffectiveSections(sections_in)))
           /\ stats.successful_sections + stats.failed_sections
                 = stats.total_sections

C7_Witness ==
    /\ gen_pc = "done"
    /\ Len(sections_in) = 2
    /\ generated = <<"Training", "Introduction">>
    /\ sections["Training"].error
    /\ ~sections["Introduction"].error
    /\ stats.failed_sections = 1
    /\ stats.successful_sections = 1

\* C8: ordering the SectionRecords by their recorded `order` field gives the
\* configured orders ascending with every missing-order section last, ties in
\* input order -- the sequence the sections were generated in.
C8_RecordedOrderIsGenerationOrder ==
    gen_pc = "done"
        => \A i, j \in 1..Len(section_keys) :
              i < j => sections[section_keys[i]].order
                          <= sections[section_keys[j]].order

----------------------------------------------------------------------------
(* Batch orchestration *)

FailingUnits == {t \in TypeSet : raises[t] # "none"}

RECURSIVE SequentialRun(_, _, _, _, _)
\* The report of the sequential loop over template_types, from type i on.
SequentialRun(outcome, i, dict, keys, s) ==
    IF i > Len(template_types)
    THEN [templates |-> dict, keys |-> keys, summary |-> s]
    ELSE LET t == template_types[i]
             result == UnitResult(t, outcome[t])
         IN SequentialRun(outcome, i + 1, DictSet(dict, t, result),
                          KeysAfter(keys, t), SummaryAfter(s, result))

SequentialReport(outcome) ==
    SequentialRun(outcome, 1, NoTemplates, <<>>,
                  [total |-> Len(template_types), successful |-> 0, failed |-> 0])

\* C10: whatever order the parallel units complete in, the returned
\* templates mapping has exactly one entry per template type, each entry is
\* the result of that type's own unit, and the report (the mapping with its
\* entries in the order they are written out, and the summary) is the one
\* the sequential run gives for the same unit outcomes.
C10_ReportSameAsSequential ==
    (parallel /\ batch_pc = "done") =>
        /\ DOMAIN templates = TypeSet
        /\ \A t \in TypeSet : templates[t] = UnitResult(t, raises[t])
        /\ [templates |-> templates, keys |-> templates_keys, summary |-> summary]
               = SequentialReport(raises)

----------------------------------------------------------------------------
(* Further claims about FreeLLMClient.generate_content *)

\* C11: a call that names a provider never calls another provider and never
\* returns fallback content; if the named provider fails all its attempts the
\* error leaves generate_content.
C11_NamedProviderRaises ==
    ~IsAuto =>
        /\ \A p \in Providers : p # llm_request => llm_calls[p] = 0
        /\ llm_result.provider # "fallback"
        /\ (llm_pc = "done" /\ llm_request \in llm_gaveup)
              => /\ llm_raised
                 /\ llm_result = NoResponse
                 /\ llm_calls[llm_request] = retry_attempts

\* A call naming "huggingface" raised after three failed attempts although
\* the providers before and after it are enabled.
C11_Witness ==
    /\ llm_request = "huggingface"
    /\ providers["groq"] /\ providers["together"]
    /\ retry_attempts = 3
    /\ llm_pc = "done"
    /\ llm_raised
    /\ llm_calls["huggingface"] = 3

Before(p, q) == IndexOf(p) < IndexOf(q)

\* C15: in AUTO mode the providers are attempted strictly in the order groq,
\* huggingface, together, openrouter -- a provider is called only after every
\* enabled provider before it has given up -- and once a provider has
\* returned a response that response is the result and no later provider is
\* called.
C15_PriorityOrderFirstSuccessWins ==
    IsAuto =>
        /\ provider_order = <<"groq", "huggingface", "together", "openrouter">>
        /\ \A p, q \in Providers :
              (Before(q, p) /\ llm_calls[p] > 0)
                  => /\ llm_ok[q] = 0
                     /\ providers[q] => q \in llm_gaveup
        /\ \A p \in Providers :
              llm_ok[p] > 0
                  => /\ llm_pc = "done"
                     /\ llm_ok[p] = 1
                     /\ llm_result.provider = p
                     /\ \A r \in Providers : Before(p, r) => llm_calls[r] = 0

\* AUTO with all four providers enabled: groq gave up, huggingface answered
\* on its second attempt, together and openrouter were never called.
C15_Witness ==
    /\ IsAuto
    /\ \A p \in Providers : providers[p]
    /\ llm_pc = "done"
    /\ "groq" \in llm_gaveup
    /\ llm_calls["huggingface"] = 2
    /\ llm_ok["huggingface"] = 1
    /\ llm_calls["together"] = 0
    /\ llm_calls["openrouter"] = 0
    /\ llm_result.provider = "huggingface"

\* C16: in AUTO mode a provider whose enabled flag is false is never called,
\* whatever the state of the other providers.
C16_DisabledNeverCalled ==
    IsAuto => \A p \in Providers : ~providers[p] => llm_calls[p] = 0

\* AUTO with groq and together disabled: huggingface gave up, openrouter
\* answered, and the two disabled providers were passed over.
C16_Witness ==
    /\ IsAuto
    /\ ~providers["groq"] /\ ~providers["together"]
    /\ providers["huggingface"] /\ providers["openrouter"]
    /\ llm_pc = "done"
    /\ "huggingface" \in llm_gaveup
    /\ llm_ok["openrouter"] = 1
    /\ llm_calls["groq"] = 0
    /\ llm_calls["together"] = 0

----------------------------------------------------------------------------
(* Further claims about SOPGenerator *)

\* C12: when the hardcoded-content flag is true, no call of generate_section,
\* made directly or by generate_template, invokes the Generation Client, for
\* any section list and any cache state.
C12_HardcodedNeverCallsClient ==
    use_hardcoded_content => llm_invocations = 0

\* A hardcoded-mode generator that has a client has assembled a two-section
\* document without a single client call.
C12_Witness ==
    /\ use_hardcoded_content
    /\ has_client
    /\ gen_pc = "done"
    /\ Len(generated) = 2
    /\ \A n \in DOMAIN sections : ~sections[n].error
    /\ llm_invocations = 0

SectionKey(call) ==
    KeyFor(template_type, call.name, BuildPrompt(template_type, call.name, call.req))

\* a generate_section call has just returned with its cache read and its
\* cache write both having hit an error
CacheFailedCall ==
    /\ sec_pc' # sec_pc
    /\ sec_last'.get_failed
    /\ sec_last'.set_failed
    /\ ~sec_last'.raised

\* the directory after the step is the one before it, except that the file
\* of `key` may have become an unreadable one
OnlyTornAt(key) ==
    \/ cache' = cache
    \/ /\ key \in DOMAIN cache'
       /\ ~cache'[key].complete
       /\ DOMAIN cache' = DOMAIN cache \cup {key}
       /\ \A k \in DOMAIN cache : k # key => cache'[k] = cache[k]

----------------------------------------------------------------------------
(* Claims about the generation router *)

\* the step is a cancel_generation request for job `id`
CancelStep(id) ==
    /\ requests' = requests + 1
    /\ http_last'.op = "cancel"
    /\ http_last'.id = id

\* C14: a job is marked cancelled only while its status is pending or
\* processing; cancel_generation on a job in any other status (completed,
\* failed, already cancelled) is rejected with an error and leaves the job
\* record unchanged.
C14_CancelOnlyWhileActive ==
    [][\A id \in DOMAIN generation_jobs :
          CancelStep(id) =>
              IF generation_jobs[id].status \in {"pending", "processing"}
              THEN /\ http_last'.code = 200
                   /\ generation_jobs'[id].status = "cancelled"
              ELSE /\ http_last'.code = 400
                   /\ generation_jobs' = generation_jobs]_vars

----------------------------------------------------------------------------
(* Backoff of FreeLLMClient._try_provider *)

\* the base delay of the backoff, in seconds (2 ** attempt is 1 * 2^attempt)
base_delay == 1

\* the maximum delay of the backoff, in seconds
max_delay == 60

\* the waits made for provider p, in the order they were made
RECURSIVE WaitsOf(_, _)
WaitsOf(waits, p) ==
    IF waits = <<>> THEN <<>>
    ELSE IF Head(waits)[1] = p
         THEN <<Head(waits)[2]>> \o WaitsOf(Tail(waits), p)
         ELSE WaitsOf(Tail(waits), p)

\* C17: between two consecutive failed attempts on a provider the client
\* waits base_delay * 2^attempt (attempt counted from 0), the wait never
\* exceeds the maximum delay, for every value of retry_attempts, and no wait
\* follows the final failed attempt.
C17_BackoffIsCapped ==
    \A p \in Providers :
        LET w == WaitsOf(llm_waits, p) IN
        /\ \A k \in 1..Len(w) :
              /\ w[k] = base_delay * Pow2(k - 1)
              /\ w[k] <= max_delay
        /\ p \in llm_gaveup => Len(w) = llm_calls[p] - 1

\* the step is the second of two generate_section calls, with the arguments
\* of the first, which returned after a cache miss, made within the TTL (the
\* first call is made at clock reading 0)
RepeatedCall ==
    /\ sec_pc = "warm"
    /\ sec_pc' = "end"
    /\ ~sec_last.raised
    /\ sec_last.how # "cached"
    /\ sec_last'.name = sec_last.name
    /\ sec_last'.req = sec_last.req
    /\ now <= cache_duration

\* after the first call the cache holds exactly the content it returned
HoldsReturned ==
    /\ SectionKey(sec_last) \in DOMAIN cache
    /\ cache[SectionKey(sec_last)].complete
    /\ cache[SectionKey(sec_last)].content = sec_last.ret

\* the second call returns the content of the first from the cache and makes
\* no Generation Client call
ServedFromCache ==
    /\ sec_last'.how = "cached"
    /\ sec_last'.ret = sec_last.ret
    /\ llm_invocations' = llm_invocations

\* C18 (as stated): after generate_section(s, r) returns following a cache
\* miss the cache holds exactly the returned content, fallback content
\* included, so a second generate_section(s, r) within the TTL returns the
\* same content and makes no Generation Client call.
C18_RepeatIsServedFromCacheAsStated ==
    [][RepeatedCall => HoldsReturned /\ ServedFromCache]_vars

\* C18 (amended): the same, provided the cache write of the first call and
\* the cache read of the second did not hit an error.
C18_RepeatIsServedFromCache ==
    [][(RepeatedCall /\ ~sec_last.set_failed /\ ~sec_last'.get_failed)
          => HoldsReturned /\ ServedFromCache]_vars

\* The first call got a failing client reply and returned fallback content;
\* the second call, one clock unit later, returned that content from the
\* cache without a further client call.
C18_Witness ==
    /\ sec_pc = "end"
    /\ now = 1
    /\ sec_last.how = "cached"
    /\ sec_last.ret = GeneratorFallbackContent(template_type, sec_last.name)
    /\ llm_invocations = 1

\* the three tests a generated text has to pass, spelled out
PassesValidation(name, content) ==
    /\ TextStripLen(content) >= 100
    /\ \/ name \notin {"Introduction", "Procedures", "Compliance Requirements",
                       "Documentation"}
       \/ RequiredElements(name) \cap TextWords(content) # {}
    /\ TextHasMarker(content)

\* C19: generate_section invokes the Generation Client at most once per
\* call; generated content that fails validation (under 100 characters, none
\* of the section's required keywords, no markdown marker) is discarded and
\* the static fallback content is returned, with no second generation
\* attempt.
C19_OneClientCallNoRetry ==
    [][sec_pc' # sec_pc =>
          /\ llm_invocations' <= llm_invocations + 1
          /\ sec_last'.rejected =>
                /\ sec_last'.how = "fallback"
                /\ sec_last'.ret
                      = GeneratorFallbackContent(template_type, sec_last'.name)
                /\ llm_invocations' = llm_invocations + 1
          /\ sec_last'.how = "generated" =>
                PassesValidation(sec_last'.name, sec_last'.ret)]_vars

\* The first call for "Introduction" made one client call, the reply failed
\* validation, and the static fallback content was returned.
C19_Witness ==
    /\ sec_pc = "warm"
    /\ sec_last.name = "Introduction"
    /\ sec_last.rejected
    /\ sec_last.how = "fallback"
    /\ llm_invocations = 1

\* C20: a generator constructed with no LLM provider enabled, or whose client
\* initialisation failed, has no client and uses hardcoded content: its
\* use_hardcoded_content flag is true, the sections it generates hold the
\* static hardcoded text, and generate_template reports generation_method
\* 'hardcoded'.
C20_NoClientMeansHardcoded ==
    (gen_pc = "done" /\ ~has_client) =>
        /\ use_hardcoded_content
        /\ GenerationMethod(use_hardcoded_content) = "hardcoded"
        /\ \A n \in DOMAIN sections :
              ~sections[n].error
                  => sections[n].content = HardcodedContent(template_type, n)

----------------------------------------------------------------------------
(* The cached flag of a SectionRecord *)

\* the key generate_section looks up for a section definition
LookupKey(def) ==
    KeyFor(template_type, def.name, BuildPrompt(template_type, def.name, def.req))

\* the cache directory holds a readable, unexpired entry under the key
\* generate_section will look up for the definition
HeldBefore(def) ==
    /\ def.req.wellformed
    /\ LookupKey(def) \in DOMAIN cache
    /\ cache[LookupKey(def)].complete
    /\ ~EntryExpired(cache[LookupKey(def)], now, cache_duration)

\* C21: in every pass of the loop of generate_template, the record stored
\* for the section has cached true exactly when the cache held, before the
\* pass, a value under the key generate_section looks up for that section,
\* and cached_sections goes up by one exactly in those passes.
C21_CachedFlagTellsCacheHeld ==
    [][gen_i' = gen_i + 1 =>
          LET def == template_structure[gen_i + 1] IN
          /\ sections'[def.name].cached = HeldBefore(def)
          /\ stats'.cached_sections
                = stats.cached_sections + (IF HeldBefore(def) THEN 1 ELSE 0)]_vars

----------------------------------------------------------------------------
(* Forced regeneration and the cache directory *)

\* the unit of template type t takes its first step: the generator is
\* constructed and, when forced, the cache is cleared
UnitStarts(t) == unit_pc[t] = "pending" /\ unit_pc'[t] = "started"

\* C22: when the unit of template type t starts, with or without
\* force_regenerate, every cache entry stored for another template type is
\* still in the cache afterwards, unchanged.
C22_ForceClearsOnlyOwnNamespace ==
    [][\A t \in TypeSet :
          UnitStarts(t) =>
              \A k \in DOMAIN cache :
                  cache[k].content.type # t =>
                      k \in DOMAIN cache' /\ cache'[k] = cache[k]]_vars

----------------------------------------------------------------------------
(* Cancellation and the background task *)

\* C23: a job that cancel_generation has marked cancelled stays cancelled:
\* no later step of its background task (or of any handler) changes its
\* status, so it never becomes processing, completed or failed afterwards.
C23_CancelledStaysCancelled ==
    [][\A id \in DOMAIN generation_jobs :
          generation_jobs[id].status = "cancelled"
              => generation_jobs'[id].status = "cancelled"]_vars

----------------------------------------------------------------------------
(* Outcome of a batch run and its notification *)

SucceededUnits == {t \in DOMAIN templates : templates[t].status = "success"}

FailedUnits == {t \in DOMAIN templates : templates[t].status = "error"}

\* the terminal outcome of a run as the state machine names it
Completed == batch_pc = "done" /\ FailedUnits = {}

PartiallyFailed == batch_pc = "done" /\ SucceededUnits # {} /\ FailedUnits # {}

Failed == batch_pc = "raised"

\* C24: a batch run goes from pending to running to one terminal outcome
\* and is not run again; the outcome is Completed when every unit
\* succeeded, PartiallyFailed when some units succeeded and some failed,
\* Failed when an exception escaped generate_all_templates, every ended run
\* has exactly one of the three, and the notification of a scheduled run is
\* the one of its outcome.
C24_OneOutcomeAndMatchingNotification ==
    /\ batch_pc \in {"done", "raised"} =>
          \/ Completed /\ ~PartiallyFailed /\ ~Failed
          \/ ~Completed /\ PartiallyFailed /\ ~Failed
          \/ ~Completed /\ ~PartiallyFailed /\ Failed
    /\ notification = "Batch Generation Successful" => Completed
    /\ notification = "Batch Generation Partial Failure" => PartiallyFailed
    /\ notification = "Batch Generation Failed" => Failed
    /\ notification # "" => batch_pc \in {"done", "raised"}

----------------------------------------------------------------------------
(* Selection of the fallback block *)

\* the block each keyword of the selection names as its own
KeywordBlock ==
    [k \in {"introduction", "procedure", "daily", "crisis", "emergency",
            "training", "monitoring", "documentation"} |->
        CASE k = "introduction" -> "introduction"
          [] k \in {"procedure", "daily"} -> "daily_procedures"
          [] k \in {"crisis", "emergency"} -> "crisis_response"
          [] k = "training" -> "employee_training"
          [] k = "monitoring" -> "monitoring"
          [] k = "documentation" -> "documentation"]

KeywordBlocks == {KeywordBlock[k] : k \in DOMAIN KeywordBlock}

\* C25: when generate_content returns the fallback response, its content is
\* the block of a keyword found in the user prompt, each keyword having a
\* block of its own, and for a prompt holding none of the keywords it is a
\* generic block that belongs to no keyword.
C25_FallbackBlockIsKeyedByKeyword ==
    (llm_pc = "done" /\ llm_result.provider = "fallback") =>
        /\ llm_result.content.src = "fallback_template"
        /\ llm_prompt # {} =>
              \E k \in llm_prompt : llm_result.content.id = KeywordBlock[k]
        /\ llm_prompt = {} => llm_result.content.id \notin KeywordBlocks

----------------------------------------------------------------------------
(* Uncoordinated access to one cache entry *)

Quiescent == \A w \in Workers : w_pc[w] = "idle"

\* every set so far wrote the same content and the latest of them returned
\* no longer ago than the cache duration
EquivalentFreshSets ==
    /\ last_set_at >= 0
    /\ Cardinality(set_contents) = 1
    /\ now - last_set_at <= cache_duration

\* C26: whatever the interleaving of the gets and sets of several workers
\* on one fingerprint, no call raises, a get returns None or the complete
\* content some set wrote, and once the calls have returned, sets of one
\* content leave the entry a single set leaves: that content, complete.
C26_ConcurrentAccessIsHarmless ==
    /\ \A w \in Workers :
          /\ ~w_call[w].raised
          /\ (w_call[w].op = "get" /\ w_call[w].ret # None)
                => w_call[w].ret \in set_contents
    /\ (Quiescent /\ EquivalentFreshSets) =>
          /\ RaceKey \in DOMAIN cache
          /\ cache[RaceKey].complete
          /\ cache[RaceKey].content \in set_contents

----------------------------------------------------------------------------
(* Distinct (template_type, section_name) pairs and their cache entries *)

\* what get(template_type, section_name, prompt) returns from directory c
Returned(c, triple) ==
    GetOutcome(c, now, cache_duration, KeyFor(triple[1], triple[2], triple[3]),
               "none").ret

\* C27: a set on one (template_type, section_name, prompt) triple leaves
\* unchanged what get returns for every triple that differs from it in
\* template_type or in section_name, names holding "_" included.
C27_DistinctPairsNeverAlias ==
    [][(last'.op = "set" /\ ops' = ops + 1) =>
          \A other \in CacheTriples :
              (other[1] # last'.triple[1] \/ other[2] # last'.triple[2])
                  => Returned(cache', other) = Returned(cache, other)]_vars

----------------------------------------------------------------------------
(* The value generate_content returns *)

\* C28: whatever retry_attempts >= 0 is configured, a generate_content that
\* returns gives an LLMResponse, never None, and in AUTO mode a response
\* that carries a provider's identifier comes from a call to that provider
\* that was made and answered.
C28_ReturnsAResponseNeverNone ==
    (llm_pc = "done" /\ ~llm_raised) =>
        /\ llm_result # NoneResponse
        /\ llm_result.provider \in Providers \cup {"fallback"}
        /\ (IsAuto /\ llm_result.provider \in Providers)
              => llm_ok[llm_result.provider] >= 1

----------------------------------------------------------------------------
(* What a status poll of the simple server observes *)

Polled == http_last.op = "status" /\ http_last.code = 200

\* C29: whatever the interleaving of a job's thread with the status
\* requests, a response showing status completed also shows progress 100
\* and a result, and a response showing status failed also shows an error.
C29_PollSeesConsistentJob ==
    Polled =>
        /\ http_last.body.status = "completed"
              => http_last.body.progress = 100 /\ http_last.body.result
        /\ http_last.body.status = "failed" => http_last.body.error # ""

----------------------------------------------------------------------------
(* Monitoring data over a sequence of batch runs *)

\* s is what is left of `full` when entries are dropped from its front
IsSuffix(s, full) ==
    /\ Len(s) <= Len(full)
    /\ s = SubSeq(full, Len(full) - Len(s) + 1, Len(full))

\* the error entries of the run just made, in the order of its report
RunErrors ==
    [i \in 1..Cardinality({k \in 1..Len(templates_keys) :
                              templates[templates_keys[k]].status = "error"}) |->
        LET k == CHOOSE n \in 1..Len(templates_keys) :
                   /\ templates[templates_keys[n]].status = "error"
                   /\ Cardinality({m \in 1..n :
                          templates[templates_keys[m]].status = "error"}) = i
        IN [template_type |-> templates_keys[k],
            error |-> templates[templates_keys[k]].error]]

\* C30: after every batch run total_runs = successful_runs + failed_runs,
\* the run has been counted as successful exactly when its summary has
\* failed = 0 and as failed otherwise, and errors holds at most 10 entries,
\* the most recent of the earlier ones followed by those of this run.
C30_MonitoringCountsAndErrorCap ==
    [][monitoring_data'.total_runs = monitoring_data.total_runs + 1 =>
          /\ monitoring_data'.total_runs
                = monitoring_data'.successful_runs + monitoring_data'.failed_runs
          /\ monitoring_data'.successful_runs
                = monitoring_data.successful_runs + (IF summary'.failed = 0 THEN 1 ELSE 0)
          /\ monitoring_data'.failed_runs
                = monitoring_data.failed_runs + (IF summary'.failed = 0 THEN 0 ELSE 1)
          /\ Len(monitoring_data'.errors) <= 10
          /\ IsSuffix(monitoring_data'.errors, monitoring_data.errors \o RunErrors')
          /\ Len(monitoring_data'.errors) < 10
                => monitoring_data'.errors = monitoring_data.errors \o RunErrors']_vars

\* three runs in which every unit failed: twelve errors were recorded and
\* the ten most recent are kept
C30_Witness ==
    /\ batch_pc = "done"
    /\ monitoring_data.total_runs = 3
    /\ monitoring_data.failed_runs = 3
    /\ monitoring_data.successful_runs = 0
    /\ Len(monitoring_data.errors) = 10
    /\ summary.failed = 4

====
